---- MODULE Spec2Model ----
(***************************************************************************)
(* Model of the batch and transaction lifecycles of the relayer service:   *)
(*   storage/scylla-adapter/src/model.rs      ValidationBatch, RelayerBatch*)
(*   storage/scylla-adapter/src/scylla_queries.rs  the queue queries       *)
(*   blockchain/blockchain-core/src/transaction.rs Transaction             *)
(* Option<T> is modelled as a set: None is {}, Some(x) is {x}.             *)
(***************************************************************************)
EXTENDS Integers, Sequences, FiniteSets, TLC

\* ------------------------------------------------------------------ bounds
\* Utc::now() is read from a clock that runs from 0 to MaxClock.
MaxClock == 2
\* Uuid::new_v4() draws from 1..MaxUuid.
MaxUuid == 2
\* Transaction hashes carried by a batch are drawn from 1..MaxTxHash.
MaxTxHash == 2
\* Block heights handed to start_processing / Confirmed are 0..MaxHeight.
MaxHeight == 1
\* mark_failed is followed up to this retry_count (u32 in the code, no wrap in range).
MaxRetryCount == 3
\* The configured retry ceiling is drawn from 0..MaxMaxRetries.
MaxMaxRetries == 2
\* Concurrent workers of one queue are 1..MaxWorkers.
MaxWorkers == 2
\* Non-zero account addresses are 1..MaxAddress; 0 is the all-zero address.
MaxAddress == 2
\* Amounts, gas limits and gas prices are drawn from 0..MaxAmount.
MaxAmount == 1
\* The pending_transactions table holds up to MaxPending rows.
MaxPending == 3
\* Stored status texts have up to MaxUpper letters in upper case (or all).
MaxUpper == 2
\* Up to MaxStored different blocks are stored.
MaxStored == 3
\* A block holds up to MaxBlockTxs transactions.
MaxBlockTxs == 4
\* validate() accepts a block timestamp up to this many minutes after now;
\* the clock counts minutes.
MaxFutureMinutes == 10
\* u64 values are kept as residues modulo 2^64; u64::MAX is the residue -1,
\* so that adding 1 to it with wraparound gives 0.
U64Max == -1

VARIABLES
    now,          \* the wall clock read by Utc::now()
    vb,           \* the ValidationBatch (for workers: the stored row)
    rb,           \* the RelayerBatch (for workers: the stored row)
    max_retries,  \* the configured retry ceiling handed to can_retry
    retry_answer, \* Option: the last can_retry call on rb, [max_retries, result]
    vworker,      \* validators: worker -> [pc, batch], the worker's own copy
    rworker,      \* relayers:   worker -> [pc, batch]
    tx,           \* the Transaction
    tx_call,      \* Option: the last update_status call, [before, arg]
    block,        \* the Block
    call,         \* the arguments of the function under call
    ret,          \* Option: what the call returned
    pending,      \* the pending_transactions table, rows in storage order
    taken,        \* batch formers: worker -> Option: the transactions it took
    task,         \* storage calls in flight: task -> [op, pc, guard]
    db            \* the blocks, blocks_by_hash and transactions tables

vars == <<now, vb, rb, max_retries, retry_answer, vworker, rworker, tx, tx_call,
          block, call, ret, pending, taken, task, db>>

None == {}
Some(x) == {x}

Clock == 0..MaxClock
Uuids == 1..MaxUuid
TxHashes == 1..MaxTxHash
Heights == 0..MaxHeight
Workers == 1..MaxWorkers

\* Vec<TxHash> values a batch is formed from.
TxHashLists == {<<>>} \cup {<<h>> : h \in TxHashes}

\* ------------------------------------------------------------ model.rs enums
ValidationStatus == {"Pending", "Processing", "Validated", "Failed", "Rejected"}
RelayerStatus == {"Queued", "Processing", "Committed", "Failed", "Cancelled"}

\* ValidationResult values handed to complete_validation.
ValidationResults ==
    [is_valid : BOOLEAN]

\* CommitmentData values handed to mark_committed.
CommitmentDatas ==
    [merkle_root : TxHashes]

\* ------------------------------------------------------- ValidationBatch
\* ValidationBatch::new
ValidationBatch_new(id, hashes, validator, t) ==
    [queue_id |-> id,
     batch_timestamp |-> t,
     tx_hashes |-> hashes,
     validation_status |-> "Pending",
     validator_id |-> validator,
     started_at |-> None,
     completed_at |-> None,
     validation_result |-> None]

\* ValidationBatch::start_processing
ValidationBatch_start_processing(b, t) ==
    [b EXCEPT !.validation_status = "Processing",
              !.started_at = Some(t)]

\* ValidationBatch::complete_validation
ValidationBatch_complete_validation(b, result, t) ==
    [b EXCEPT !.validation_status =
                  IF result.is_valid THEN "Validated" ELSE "Failed",
              !.completed_at = Some(t),
              !.validation_result = Some(result)]

\* ---------------------------------------------------------- RelayerBatch
\* RelayerBatch::new
RelayerBatch_new(id, hashes, relayer, t) ==
    [commitment_id |-> id,
     batch_timestamp |-> t,
     tx_hashes |-> hashes,
     status |-> "Queued",
     relayer_id |-> relayer,
     retry_count |-> 0,
     last_attempt |-> None,
     target_block_height |-> None,
     commitment_data |-> None]

\* start_processing that starts the retry count over.
RelayerBatch_start_processing_resets_retries(b, target_block_height, t) ==
    [b EXCEPT !.status = "Processing",
              !.retry_count = 0,
              !.last_attempt = Some(t),
              !.target_block_height = Some(target_block_height)]

\* RelayerBatch::start_processing
RelayerBatch_start_processing(b, target_block_height, t) ==
    [b EXCEPT !.status = "Processing",
              !.last_attempt = Some(t),
              !.target_block_height = Some(target_block_height)]

\* RelayerBatch::mark_committed
RelayerBatch_mark_committed(b, commitment_data) ==
    [b EXCEPT !.status = "Committed",
              !.commitment_data = Some(commitment_data)]

\* RelayerBatch::mark_failed
RelayerBatch_mark_failed(b, t) ==
    [b EXCEPT !.status = "Failed",
              !.retry_count = b.retry_count + 1,
              !.last_attempt = Some(t)]

\* can_retry with the ceiling off by one (<= for <).
RelayerBatch_can_retry_off_by_one(b, m) ==
    b.retry_count <= m /\ b.status = "Failed"

\* RelayerBatch::can_retry
RelayerBatch_can_retry(b, m) ==
    b.retry_count < m /\ b.status = "Failed"

\* ------------------------------------------------------------ Transaction
\* Address: 0 is the all-zero address.
Addresses == 0..MaxAddress
Amounts == 0..MaxAmount

\* TransactionType: Transfer, Deploy, Call.
TransactionTypes ==
    [kind : {"Transfer"}, from : Addresses, to : Addresses, amount : Amounts]
    \cup [kind : {"Deploy"}, from : Addresses, code : {<<>>, <<1>>},
          init_data : {<<>>}]
    \cup [kind : {"Call"}, from : Addresses, to : Addresses, data : {<<>>},
          amount : Amounts]

\* TransactionStatus: Pending, Confirmed, Failed, Rejected.
TransactionStatuses ==
    {[kind |-> "Pending"]}
    \cup [kind : {"Confirmed"}, block_height : Heights, block_hash : {1}]
    \cup [kind : {"Failed"}, reason : {"bad nonce"}]
    \cup [kind : {"Rejected"}, reason : {"low fee"}]

\* hash_serializable: the digest of the canonical encoding, taken as
\* collision-free: the encoded value stands for its digest.
hash_serializable(data) == <<"sha256", data>>

\* calculate_hash that also covers the status field.
Transaction_calculate_hash_with_status(t) ==
    hash_serializable(<<t.tx_type, t.nonce, t.gas_limit, t.gas_price, t.timestamp,
                        t.status>>)

\* Transaction::calculate_hash: over tx_type, nonce, gas_limit, gas_price,
\* timestamp; signature and status are left out.
Transaction_calculate_hash(t) ==
    hash_serializable(<<t.tx_type, t.nonce, t.gas_limit, t.gas_price, t.timestamp>>)

\* Transaction::new that leaves the temporary all-zero hash in place.
Transaction_new_temporary_hash(tx_type, nonce, gas_limit, gas_price, t) ==
    [hash |-> <<"zero">>,
     tx_type |-> tx_type,
     nonce |-> nonce,
     gas_limit |-> gas_limit,
     gas_price |-> gas_price,
     timestamp |-> t,
     signature |-> <<>>,
     status |-> [kind |-> "Pending"]]

\* Transaction::new
Transaction_new(tx_type, nonce, gas_limit, gas_price, t) ==
    LET temp == [hash |-> <<"zero">>,
                 tx_type |-> tx_type,
                 nonce |-> nonce,
                 gas_limit |-> gas_limit,
                 gas_price |-> gas_price,
                 timestamp |-> t,
                 signature |-> <<>>,
                 status |-> [kind |-> "Pending"]]
    IN [temp EXCEPT !.hash = Transaction_calculate_hash(temp)]

\* update_status that keeps a Confirmed, Failed or Rejected status.
Transaction_update_status_guarded(t, status) ==
    IF t.status.kind = "Pending" THEN [t EXCEPT !.status = status] ELSE t

\* Transaction::update_status
Transaction_update_status(t, status) ==
    [t EXCEPT !.status = status]

\* Result<T>: Ok(value) or Err(BlockchainError).
Ok(v) == [ok |-> TRUE, value |-> v]
Err(kind, reason) == [ok |-> FALSE, kind |-> kind, reason |-> reason]

\* [0u8; 32], the all-zero hash.
ZeroHash == <<"zero">>

\* hash_data: SHA-256 of the bytes, taken as collision-free.
hash_data(bytes) == <<"sha256", bytes>>

\* validate_address: false exactly for the all-zero address.
validate_address(address) == address # 0

\* Transaction::new_transfer
Transaction_new_transfer(from, to, amount, nonce, gas_limit, gas_price, t) ==
    Ok(Transaction_new([kind |-> "Transfer", from |-> from, to |-> to,
                        amount |-> amount], nonce, gas_limit, gas_price, t))

\* Transaction::new_call
Transaction_new_call(from, to, data, amount, nonce, gas_limit, gas_price, t) ==
    Ok(Transaction_new([kind |-> "Call", from |-> from, to |-> to,
                        data |-> data, amount |-> amount],
                       nonce, gas_limit, gas_price, t))

\* Transaction::new_deploy
Transaction_new_deploy(from, code, init_data, nonce, gas_limit, gas_price, t) ==
    Ok(Transaction_new([kind |-> "Deploy", from |-> from, code |-> code,
                        init_data |-> init_data],
                       nonce, gas_limit, gas_price, t))

\* The match on tx_type without the self-transfer check.
validate_tx_type_no_self_check(tt) ==
    CASE tt.kind = "Transfer" ->
           IF ~ validate_address(tt.from) THEN Some("Invalid sender address")
           ELSE IF ~ validate_address(tt.to) THEN Some("Invalid recipient address")
           ELSE IF tt.amount = 0 THEN Some("Transfer amount cannot be zero")
           ELSE None
      [] tt.kind = "Deploy" ->
           IF ~ validate_address(tt.from) THEN Some("Invalid deployer address")
           ELSE IF tt.code = <<>> THEN Some("Contract code cannot be empty")
           ELSE None
      [] tt.kind = "Call" ->
           IF ~ validate_address(tt.from) THEN Some("Invalid caller address")
           ELSE IF ~ validate_address(tt.to) THEN Some("Invalid contract address")
           ELSE None

\* The match on tx_type of validate_structure: the first failed check, if any.
validate_tx_type(tt) ==
    CASE tt.kind = "Transfer" ->
           IF ~ validate_address(tt.from) THEN Some("Invalid sender address")
           ELSE IF ~ validate_address(tt.to) THEN Some("Invalid recipient address")
           ELSE IF tt.amount = 0 THEN Some("Transfer amount cannot be zero")
           ELSE IF tt.from = tt.to THEN Some("Cannot transfer to self")
           ELSE None
      [] tt.kind = "Deploy" ->
           IF ~ validate_address(tt.from) THEN Some("Invalid deployer address")
           ELSE IF tt.code = <<>> THEN Some("Contract code cannot be empty")
           ELSE None
      [] tt.kind = "Call" ->
           IF ~ validate_address(tt.from) THEN Some("Invalid caller address")
           ELSE IF ~ validate_address(tt.to) THEN Some("Invalid contract address")
           ELSE None

\* Transaction::validate_structure
Transaction_validate_structure(t) ==
    LET shape == validate_tx_type(t.tx_type) IN
    IF shape # None
      THEN Err("InvalidTransaction", CHOOSE r \in shape : TRUE)
    ELSE IF t.gas_limit = 0
      THEN Err("InvalidTransaction", "Gas limit cannot be zero")
    ELSE IF t.gas_price = 0
      THEN Err("InvalidTransaction", "Gas price cannot be zero")
    ELSE IF Transaction_calculate_hash(t) # t.hash
      THEN Err("InvalidTransaction", "Transaction hash mismatch")
    ELSE Ok("unit")

\* ------------------------------------------------------------ u64 arithmetic
\* A panic of the running thread.
Panic(message) == [ok |-> FALSE, kind |-> "panic", reason |-> message]

\* u64 values as residues modulo 2^64: a residue r >= 0 is the value r, a
\* residue r < 0 the value 2^64 + r. The residues of the model are small, so
\* a product or sum of residues is the residue of the wrapped result.
U64s == (0..MaxAmount) \cup {U64Max, U64Max - 1}

\* The outcome of an overflowing operation: a panic in a build with overflow
\* checks, the wrapped value in a build without them.
Overflowed(wrapped, message, overflow_checks) ==
    IF overflow_checks THEN Panic(message) ELSE Ok(wrapped)

\* a * b on u64. The product passes u64::MAX when one factor is at least
\* 2^64 - MaxAmount and the other at least 2.
u64_mul(a, b, overflow_checks) ==
    IF (a < 0 /\ (b < 0 \/ b >= 2)) \/ (b < 0 /\ a >= 2)
      THEN Overflowed(a * b, "attempt to multiply with overflow", overflow_checks)
    ELSE Ok(a * b)

\* a + b on u64. The sum passes u64::MAX when both are at least
\* 2^64 - MaxAmount, or one is and the residues add up to 0 or more.
u64_add(a, b, overflow_checks) ==
    IF (a < 0 /\ b < 0) \/ ((a < 0 \/ b < 0) /\ a + b >= 0)
      THEN Overflowed(a + b, "attempt to add with overflow", overflow_checks)
    ELSE Ok(a + b)

\* Transaction::sender
Transaction_sender(t) == t.tx_type.from

\* Transaction::recipient
Transaction_recipient(t) ==
    IF t.tx_type.kind = "Deploy" THEN None ELSE Some(t.tx_type.to)

\* amount that is the transferred amount for Transfer only.
Transaction_amount_transfer_only(t) ==
    IF t.tx_type.kind = "Transfer" THEN t.tx_type.amount ELSE 0

\* Transaction::amount
Transaction_amount(t) ==
    IF t.tx_type.kind = "Deploy" THEN 0 ELSE t.tx_type.amount

\* Transaction::total_fee: self.gas_limit * self.gas_price
Transaction_total_fee(t, overflow_checks) ==
    u64_mul(t.gas_limit, t.gas_price, overflow_checks)

\* ------------------------------------------------------ transaction_block.rs
\* One level of the merkle tree: chunks(2), a lone last hash paired with itself.
\* The concatenation of two 32-byte hashes is kept as the pair.
RECURSIVE merkle_level_no_duplicate(_)
merkle_level_no_duplicate(hashes) ==
    IF Len(hashes) = 0 THEN <<>>
    ELSE IF Len(hashes) = 1 THEN <<hashes[1]>>
    ELSE <<hash_data(<<hashes[1], hashes[2]>>)>>
             \o merkle_level_no_duplicate(SubSeq(hashes, 3, Len(hashes)))

RECURSIVE merkle_level(_)
merkle_level(hashes) ==
    IF Len(hashes) = 0 THEN <<>>
    ELSE IF Len(hashes) = 1 THEN <<hash_data(<<hashes[1], hashes[1]>>)>>
    ELSE <<hash_data(<<hashes[1], hashes[2]>>)>>
             \o merkle_level(SubSeq(hashes, 3, Len(hashes)))

\* while hashes.len() > 1 { hashes = next_level }; hashes[0]
RECURSIVE merkle_reduce(_)
merkle_reduce(hashes) ==
    IF Len(hashes) > 1 THEN merkle_reduce(merkle_level(hashes)) ELSE hashes[1]

\* Block::calculate_merkle_root
Block_calculate_merkle_root(transactions) ==
    IF Len(transactions) = 0 THEN Ok(ZeroHash)
    ELSE Ok(merkle_reduce([i \in 1..Len(transactions) |-> transactions[i].hash]))

\* Block::calculate_hash
Block_calculate_hash(b) == Ok(hash_serializable(b.header))

\* Block::calculate_size: the length of the serialized block, kept as the
\* number of transactions serialized.
Block_calculate_size(b) == Ok(Len(b.transactions))

\* Block::new, with t the value Utc::now() returns. len() as u32 is the
\* length itself for the list lengths of the model.
Block_new(height, previous_hash, transactions, difficulty, t) ==
    LET header == [height |-> height,
                   previous_hash |-> previous_hash,
                   merkle_root |-> Block_calculate_merkle_root(transactions).value,
                   timestamp |-> t,
                   nonce |-> 0,
                   difficulty |-> difficulty,
                   version |-> 1]
        temporary == [hash |-> ZeroHash,
                      header |-> header,
                      transactions |-> transactions,
                      transaction_count |-> Len(transactions),
                      size |-> 0]
        hashed == [temporary EXCEPT !.hash = Block_calculate_hash(temporary).value]
    IN Ok([hashed EXCEPT !.size = Block_calculate_size(hashed).value])

\* genesis with difficulty 0.
Block_genesis_difficulty_zero(t) == Block_new(0, ZeroHash, <<>>, 0, t)

\* Block::genesis
Block_genesis(t) == Block_new(0, ZeroHash, <<>>, 1, t)

\* Block::set_nonce that leaves the stored hash as it was.
Block_set_nonce_stale_hash(b, nonce) == [b EXCEPT !.header.nonce = nonce]

\* Block::set_nonce that rebuilds the block and leaves size at 0.
Block_set_nonce_drops_size(b, nonce) ==
    LET renonced == [b EXCEPT !.header.nonce = nonce, !.size = 0]
    IN [renonced EXCEPT !.hash = hash_serializable(renonced.header)]

\* Block::set_nonce
Block_set_nonce(b, nonce) ==
    LET renonced == [b EXCEPT !.header.nonce = nonce]
    IN [renonced EXCEPT !.hash = Block_calculate_hash(renonced).value]

\* for tx in &self.transactions { tx.validate_structure()?; }: the first error.
RECURSIVE validate_transactions(_)
validate_transactions(transactions) ==
    IF Len(transactions) = 0 THEN Ok("unit")
    ELSE IF ~ Transaction_validate_structure(Head(transactions)).ok
      THEN Transaction_validate_structure(Head(transactions))
    ELSE validate_transactions(Tail(transactions))

\* Block::validate without the transaction-count check.
Block_validate_no_count_check(b, t) ==
    IF Block_calculate_hash(b).value # b.hash
      THEN Err("BlockValidationFailed", "Block hash mismatch")
    ELSE IF Block_calculate_merkle_root(b.transactions).value # b.header.merkle_root
      THEN Err("BlockValidationFailed", "Merkle root mismatch")
    ELSE IF ~ validate_transactions(b.transactions).ok
      THEN validate_transactions(b.transactions)
    ELSE IF b.header.timestamp > t + MaxFutureMinutes
      THEN Err("BlockValidationFailed", "Block timestamp too far in future")
    ELSE Ok("unit")

\* Block::validate, with t the value Utc::now() returns.
Block_validate(b, t) ==
    IF Block_calculate_hash(b).value # b.hash
      THEN Err("BlockValidationFailed", "Block hash mismatch")
    ELSE IF Block_calculate_merkle_root(b.transactions).value # b.header.merkle_root
      THEN Err("BlockValidationFailed", "Merkle root mismatch")
    ELSE IF b.transaction_count # Len(b.transactions)
      THEN Err("BlockValidationFailed", "Transaction count mismatch")
    ELSE IF ~ validate_transactions(b.transactions).ok
      THEN validate_transactions(b.transactions)
    ELSE IF b.header.timestamp > t + MaxFutureMinutes
      THEN Err("BlockValidationFailed", "Block timestamp too far in future")
    ELSE Ok("unit")

\* previous_block.header.height + 1 on u64: at u64::MAX a build with overflow
\* checks panics and a build without them wraps to 0.
\* Block::can_follow
Block_can_follow(b, previous_block, overflow_checks) ==
    IF previous_block.header.height = U64Max /\ overflow_checks
      THEN Panic("attempt to add with overflow")
    ELSE IF b.header.height # previous_block.header.height + 1
      THEN Err("BlockValidationFailed", "Invalid height")
    ELSE IF b.header.previous_hash # previous_block.hash
      THEN Err("BlockValidationFailed", "Previous hash mismatch")
    ELSE IF b.header.timestamp <= previous_block.header.timestamp
      THEN Err("BlockValidationFailed", "Block timestamp must be after previous block")
    ELSE Ok("unit")

\* Iterator::sum over u64: the items added to 0 from left to right; an item
\* that is itself a panic ends the sum.
RECURSIVE sum_u64(_, _, _)
sum_u64(items, acc, overflow_checks) ==
    IF Len(items) = 0 THEN Ok(acc)
    ELSE IF ~ Head(items).ok THEN Head(items)
    ELSE LET added == u64_add(acc, Head(items).value, overflow_checks)
         IN IF added.ok THEN sum_u64(Tail(items), added.value, overflow_checks)
            ELSE added

\* Block::total_transaction_value
Block_total_transaction_value(b, overflow_checks) ==
    sum_u64([i \in 1..Len(b.transactions) |-> Ok(Transaction_amount(b.transactions[i]))],
            0, overflow_checks)

\* Block::total_fees
Block_total_fees(b, overflow_checks) ==
    sum_u64([i \in 1..Len(b.transactions) |->
                 Transaction_total_fee(b.transactions[i], overflow_checks)],
            0, overflow_checks)

\* Block heights: small ones and the largest u64.
BlockHeights == Heights \cup {U64Max}

\* Transactions blocks are built from: valid transfers and a self-transfer.
ValidTxs ==
    {Transaction_new([kind |-> "Transfer", from |-> 1, to |-> 2, amount |-> 1],
                     n, 1, 1, 0) : n \in 0..MaxAmount}
SelfTransferTx ==
    Transaction_new([kind |-> "Transfer", from |-> 1, to |-> 1, amount |-> 1],
                    0, 1, 1, 0)
TxPool == ValidTxs \cup {SelfTransferTx}

\* Vec<Transaction> values of up to MaxBlockTxs transactions of a pool.
TxListsOf(pool) == UNION {[1..n -> pool] : n \in 0..MaxBlockTxs}
TxLists == TxListsOf(TxPool)

\* ------------------------------------------------- scylla-adapter/src/lib.rs
\* bincode::serialize / bincode::deserialize of a Transaction.
bincode_serialize(t) == <<"bincode", t>>
bincode_deserialize(bytes) == bytes[2]

\* v as i64 for a u64 v: the same residue, read as a signed number.
as_i64(v) == v

\* The primary key of a pending_transactions row: the columns DELETE_PENDING_TX
\* names.
PendingKey(row) == <<row.priority_score, row.timestamp, row.tx_hash>>

\* INSERT_PENDING_TX: a row with the key of a stored row replaces it; a row
\* with a new key is stored at the position the table's storage order gives
\* it, which the statements of the adapter do not determine.
INSERT_PENDING_TX(table, row, position) ==
    IF \E i \in 1..Len(table) : PendingKey(table[i]) = PendingKey(row)
      THEN [i \in 1..Len(table) |->
                IF PendingKey(table[i]) = PendingKey(row) THEN row ELSE table[i]]
    ELSE SubSeq(table, 1, position - 1) \o <<row>>
             \o SubSeq(table, position, Len(table))

\* DELETE_PENDING_TX
DELETE_PENDING_TX(table, priority_score, timestamp, tx_hash) ==
    LET Kept(row) == PendingKey(row) # <<priority_score, timestamp, tx_hash>>
    IN SelectSeq(table, Kept)

\* SELECT priority_score, timestamp FROM pending_transactions WHERE tx_hash = ?
SelectPendingByHash(table, tx_hash) ==
    LET Matches(row) == row.tx_hash = tx_hash
    IN SelectSeq(table, Matches)

\* SELECT tx_data FROM pending_transactions LIMIT ?
SelectPendingLimit(table, limit) ==
    SubSeq(table, 1, IF limit < Len(table) THEN limit ELSE Len(table))

\* ScyllaAdapter::add_pending_transaction: [result, table]
Adapter_add_pending_transaction(table, t, position, overflow_checks) ==
    LET priority_score == u64_mul(t.gas_price, t.gas_limit, overflow_checks)
    IN IF ~ priority_score.ok
         THEN [result |-> priority_score, table |-> table]
       ELSE [result |-> Ok("unit"),
             table |-> INSERT_PENDING_TX(table,
                           [tx_hash |-> t.hash,
                            priority_score |-> as_i64(priority_score.value),
                            timestamp |-> t.timestamp,
                            tx_data |-> bincode_serialize(t)],
                           position)]

\* ScyllaAdapter::remove_pending_transaction: [result, table]
Adapter_remove_pending_transaction(table, tx_hash) ==
    LET rows == SelectPendingByHash(table, tx_hash)
    IN IF Len(rows) = 0 THEN [result |-> Ok("unit"), table |-> table]
       ELSE [result |-> Ok("unit"),
             table |-> DELETE_PENDING_TX(table, rows[1].priority_score,
                                         rows[1].timestamp, tx_hash)]

\* get_pending_transactions that deletes the rows it returns.
Adapter_get_pending_transactions_draining(table, limit) ==
    LET rows == SelectPendingLimit(table, limit)
    IN [result |-> Ok([i \in 1..Len(rows) |-> bincode_deserialize(rows[i].tx_data)]),
        table |-> SubSeq(table, Len(rows) + 1, Len(table))]

\* ScyllaAdapter::get_pending_transactions: [result, table]; the SELECT
\* leaves the table as it is.
Adapter_get_pending_transactions(table, limit) ==
    LET rows == SelectPendingLimit(table, limit)
    IN [result |-> Ok([i \in 1..Len(rows) |-> bincode_deserialize(rows[i].tx_data)]),
        table |-> table]

\* --------------------------------------------------------------- defaults
\* Values of the variables a specification does not use.
IdleWorkers == [w \in Workers |-> [pc |-> "idle", batch |-> None]]
NoBlock == Block_genesis(0).value
NoPending == <<>>
NoTaken == [w \in Workers |-> None]
NoTask == [w \in Workers |-> [op |-> "none", pc |-> "idle", guard |-> FALSE]]
\* Empty tables.
NoDb ==
    [blocks |-> <<>>, blocks_by_hash |-> <<>>, transactions |-> <<>>,
     transactions_by_address |-> {}, transactions_by_block |-> <<>>]
NoTx == Transaction_new([kind |-> "Deploy", from |-> 0, code |-> <<>>, init_data |-> <<>>], 0, 0, 0, 0)

\* ------------------------------------------------------------------ clock
\* Time passes between two calls.
Tick ==
    /\ now < MaxClock
    /\ now' = now + 1
    /\ UNCHANGED <<vb, rb, max_retries, retry_answer, vworker, rworker, tx, tx_call, block, call, ret,
                   pending, taken, task, db>>

\* ------------------------------------------- ValidationBatch state machine
InitVB ==
    /\ now \in Clock
    /\ \E id \in Uuids, hashes \in TxHashLists :
           vb = ValidationBatch_new(id, hashes, "validator", now)
    /\ rb = RelayerBatch_new(1, <<>>, "relayer", 0)
    /\ max_retries = 0
    /\ retry_answer = None
    /\ vworker = IdleWorkers
    /\ rworker = IdleWorkers
    /\ tx = NoTx
    /\ tx_call = None
    /\ block = NoBlock
    /\ call = None
    /\ ret = None
    /\ pending = NoPending
    /\ taken = NoTaken
    /\ task = NoTask
    /\ db = NoDb

VB_StartProcessing ==
    /\ vb' = ValidationBatch_start_processing(vb, now)
    /\ UNCHANGED <<now, rb, max_retries, retry_answer, vworker, rworker, tx, tx_call, block, call, ret,
                   pending, taken, task, db>>

VB_CompleteValidation ==
    /\ \E result \in ValidationResults :
           vb' = ValidationBatch_complete_validation(vb, result, now)
    /\ UNCHANGED <<now, rb, max_retries, retry_answer, vworker, rworker, tx, tx_call, block, call, ret,
                   pending, taken, task, db>>

NextVB == Tick \/ VB_StartProcessing \/ VB_CompleteValidation

SpecVB == InitVB /\ [][NextVB]_vars

\* ---------------------------------------------- RelayerBatch state machine
InitRB ==
    /\ now \in Clock
    /\ \E id \in Uuids, hashes \in TxHashLists :
           rb = RelayerBatch_new(id, hashes, "relayer", now)
    /\ max_retries \in 0..MaxMaxRetries
    /\ retry_answer = None
    /\ vb = ValidationBatch_new(1, <<>>, "validator", 0)
    /\ vworker = IdleWorkers
    /\ rworker = IdleWorkers
    /\ tx = NoTx
    /\ tx_call = None
    /\ block = NoBlock
    /\ call = None
    /\ ret = None
    /\ pending = NoPending
    /\ taken = NoTaken
    /\ task = NoTask
    /\ db = NoDb

RB_StartProcessing ==
    /\ \E h \in Heights : rb' = RelayerBatch_start_processing(rb, h, now)
    /\ retry_answer' = None
    /\ UNCHANGED <<now, vb, max_retries, vworker, rworker, tx, tx_call, block, call, ret,
                   pending, taken, task, db>>

RB_MarkCommitted ==
    /\ \E cd \in CommitmentDatas : rb' = RelayerBatch_mark_committed(rb, cd)
    /\ retry_answer' = None
    /\ UNCHANGED <<now, vb, max_retries, vworker, rworker, tx, tx_call, block, call, ret,
                   pending, taken, task, db>>

\* retry_count is followed up to MaxRetryCount.
RB_MarkFailed ==
    /\ rb.retry_count < MaxRetryCount
    /\ rb' = RelayerBatch_mark_failed(rb, now)
    /\ retry_answer' = None
    /\ UNCHANGED <<now, vb, max_retries, vworker, rworker, tx, tx_call, block, call, ret,
                   pending, taken, task, db>>

\* can_retry(max_retries) with the configured ceiling; &self, changes nothing.
RB_CanRetry ==
    /\ retry_answer' = Some([max_retries |-> max_retries,
                             result |-> RelayerBatch_can_retry(rb, max_retries)])
    /\ UNCHANGED <<now, vb, rb, max_retries, vworker, rworker, tx, tx_call, block, call, ret,
                   pending, taken, task, db>>

NextRB ==
    \/ Tick
    \/ RB_StartProcessing
    \/ RB_MarkCommitted
    \/ RB_MarkFailed
    \/ RB_CanRetry

SpecRB == InitRB /\ [][NextRB]_vars

\* --------------------------------------------------------------- C1
\* C1: validation batch monotonicity: once the status of the batch is
\* Validated or Failed, no operation makes it Pending or Processing again.
C1_Monotonic ==
    [][vb.validation_status \in {"Validated", "Failed"}
         => vb'.validation_status \notin {"Pending", "Processing"}]_vars

\* --------------------------------------------------------------- C5
\* C5: a ValidationBatch enters Validated or Failed only from Processing,
\* so whenever completed_at is set, started_at is set too.
C5_TerminalOnlyFromProcessing ==
    [][/\ (/\ vb'.validation_status \in {"Validated", "Failed"}
           /\ vb'.validation_status # vb.validation_status)
          => vb.validation_status = "Processing"
       /\ vb'.completed_at # None => vb'.started_at # None]_vars

\* --------------------------------------------------------------- C6
\* A step of the ValidationBatch operations that rejects the batch.
VB_RejectStep == NextVB /\ vb'.validation_status = "Rejected"

\* C6: a ValidationBatch can become Rejected, and only from Pending: a batch
\* that is Pending has an operation that rejects it, and no operation moves a
\* batch that is Processing, Validated or Failed to Rejected.
C6_RejectedFromPendingOnly ==
    /\ vb.validation_status = "Pending" => ENABLED VB_RejectStep
    /\ vb.validation_status # "Pending" => ~ ENABLED VB_RejectStep

\* The operations of ValidationBatch never produce Rejected.
VB_NeverRejected == vb.validation_status # "Rejected"

\* --------------------------------------------------------------- C2
\* C2: retry ceiling: a RelayerBatch whose retry_count equals max_retries
\* is not Processing in any later state.  Stated for a ceiling of at least 1:
\* with a ceiling of 0 a new batch already has retry_count = max_retries
\* before its first attempt.
C2_RetryCeiling ==
    [][(max_retries >= 1 /\ rb.retry_count = max_retries)
         => rb'.status # "Processing"]_vars

\* --------------------------------------------------------------- C4
\* The edges of the relayer state machine.
RelayerEdges ==
    {<<"Queued", "Processing">>, <<"Processing", "Committed">>,
     <<"Processing", "Failed">>, <<"Failed", "Processing">>}

\* C4: every status change of a RelayerBatch made by start_processing,
\* mark_committed or mark_failed is an edge of the relayer state machine; a
\* Committed batch keeps its status, and Committed and Failed are entered
\* only from Processing.
C4_RelayerEdgesOnly ==
    [][rb'.status # rb.status => <<rb.status, rb'.status>> \in RelayerEdges]_vars

\* --------------------------------------------------------------- C8
\* C8: relayer retry is bounded: retry_count <= max_retries in every
\* reachable state of a RelayerBatch.  Stated for a ceiling of at least 1:
\* with a ceiling of 0 the first failed attempt already gives retry_count 1.
C8_RetryBounded == max_retries >= 1 => rb.retry_count <= max_retries

\* --------------------------------------------------------------- C9
\* A step of the RelayerBatch operations that cancels the batch.
RB_CancelStep == NextRB /\ rb'.status = "Cancelled"

\* A step of the RelayerBatch operations that makes the batch Processing.
RB_ProcessingStep == NextRB /\ rb'.status = "Processing"

\* C9: from every state with status Queued or Processing an operation moves
\* the batch to Cancelled, and a Cancelled batch never becomes Processing.
C9_CancelAvailable ==
    /\ rb.status \in {"Queued", "Processing"} => ENABLED RB_CancelStep
    /\ rb.status = "Cancelled" => ~ ENABLED RB_ProcessingStep

\* The operations of RelayerBatch never produce Cancelled.
RB_NeverCancelled == rb.status # "Cancelled"

\* --------------------------------------------------------------- C7
\* A RelayerBatch as it is read back from the queue: any status, any count.
InitCanRetry ==
    /\ now = 0
    /\ \E id \in Uuids, st \in RelayerStatus, n \in 0..MaxRetryCount :
           rb = [RelayerBatch_new(id, <<>>, "relayer", now)
                     EXCEPT !.status = st, !.retry_count = n]
    /\ max_retries \in 0..MaxMaxRetries
    /\ retry_answer = None
    /\ vb = ValidationBatch_new(1, <<>>, "validator", 0)
    /\ vworker = IdleWorkers
    /\ rworker = IdleWorkers
    /\ tx = NoTx
    /\ tx_call = None
    /\ block = NoBlock
    /\ call = None
    /\ ret = None
    /\ pending = NoPending
    /\ taken = NoTaken
    /\ task = NoTask
    /\ db = NoDb

NextCanRetry == RB_CanRetry

SpecCanRetry == InitCanRetry /\ [][NextCanRetry]_vars

\* C7: can_retry(max_retries) is true exactly when the status is Failed and
\* retry_count < max_retries; it is false when retry_count >= max_retries and
\* false for Queued, Processing, Committed and Cancelled.
C7_CanRetryExact ==
    \A a \in retry_answer :
        /\ a.result = TRUE
             <=> (rb.status = "Failed" /\ rb.retry_count < a.max_retries)
        /\ rb.retry_count >= a.max_retries => a.result = FALSE
        /\ rb.status \in {"Queued", "Processing", "Committed", "Cancelled"}
             => a.result = FALSE

\* can_retry answered true for a Failed batch below the ceiling.
C7_Witness ==
    \E a \in retry_answer :
        a.result = TRUE /\ rb.status = "Failed" /\ rb.retry_count + 1 = a.max_retries

\* ------------------------------------------------- workers claiming a batch
\* GET_PENDING_VALIDATION: the rows a validator is handed (WHERE validation_status = 'pending').
GET_PENDING_VALIDATION(row) == row.validation_status = "Pending"

\* GET_PENDING_RELAYER_BATCHES: the rows a relayer is handed (WHERE status = 'queued').
GET_PENDING_RELAYER_BATCHES(row) == row.status = "Queued"

\* INSERT_VALIDATION_BATCH: the row is written as given (an upsert, no condition).
INSERT_VALIDATION_BATCH(row, b) == b

\* UPDATE_RELAYER_STATUS: SET status, retry_count, last_attempt,
\* target_block_height, with no condition on the stored status.
UPDATE_RELAYER_STATUS(row, b) ==
    [row EXCEPT !.status = b.status,
                !.retry_count = b.retry_count,
                !.last_attempt = b.last_attempt,
                !.target_block_height = b.target_block_height]

InitClaim ==
    /\ now \in Clock
    /\ \E id \in Uuids, hashes \in TxHashLists :
           vb = ValidationBatch_new(id, hashes, "validator", now)
    /\ \E id \in Uuids, hashes \in TxHashLists :
           rb = RelayerBatch_new(id, hashes, "relayer", now)
    /\ max_retries = 0
    /\ retry_answer = None
    /\ vworker = IdleWorkers
    /\ rworker = IdleWorkers
    /\ tx = NoTx
    /\ tx_call = None
    /\ block = NoBlock
    /\ call = None
    /\ ret = None
    /\ pending = NoPending
    /\ taken = NoTaken
    /\ task = NoTask
    /\ db = NoDb

\* A validator reads the pending batch from the queue.
V_Fetch(w) ==
    /\ vworker[w].pc = "idle"
    /\ GET_PENDING_VALIDATION(vb)
    /\ vworker' = [vworker EXCEPT ![w] = [pc |-> "fetched", batch |-> Some(vb)]]
    /\ UNCHANGED <<now, vb, rb, max_retries, retry_answer, rworker, tx, tx_call, block, call, ret,
                   pending, taken, task, db>>

\* The validator claims the batch it read: start_processing, then the write.
V_StartProcessing(w) ==
    /\ vworker[w].pc = "fetched"
    /\ \E b \in vworker[w].batch :
         LET claimed == ValidationBatch_start_processing(b, now) IN
           /\ vworker' = [vworker EXCEPT ![w] =
                              [pc |-> "claimed", batch |-> Some(claimed)]]
           /\ vb' = INSERT_VALIDATION_BATCH(vb, claimed)
    /\ UNCHANGED <<now, rb, max_retries, retry_answer, rworker, tx, tx_call, block, call, ret,
                   pending, taken, task, db>>

\* A relayer reads the queued batch from the queue.
R_Fetch(w) ==
    /\ rworker[w].pc = "idle"
    /\ GET_PENDING_RELAYER_BATCHES(rb)
    /\ rworker' = [rworker EXCEPT ![w] = [pc |-> "fetched", batch |-> Some(rb)]]
    /\ UNCHANGED <<now, vb, rb, max_retries, retry_answer, vworker, tx, tx_call, block, call, ret,
                   pending, taken, task, db>>

\* The relayer claims the batch it read: start_processing, then the write.
R_StartProcessing(w) ==
    /\ rworker[w].pc = "fetched"
    /\ \E b \in rworker[w].batch, h \in Heights :
         LET claimed == RelayerBatch_start_processing(b, h, now) IN
           /\ rworker' = [rworker EXCEPT ![w] =
                              [pc |-> "claimed", batch |-> Some(claimed)]]
           /\ rb' = UPDATE_RELAYER_STATUS(rb, claimed)
    /\ UNCHANGED <<now, vb, max_retries, retry_answer, vworker, tx, tx_call, block, call, ret,
                   pending, taken, task, db>>

NextClaim ==
    \/ Tick
    \/ \E w \in Workers : V_Fetch(w)
    \/ \E w \in Workers : V_StartProcessing(w)
    \/ \E w \in Workers : R_Fetch(w)
    \/ \E w \in Workers : R_StartProcessing(w)

SpecClaim == InitClaim /\ [][NextClaim]_vars

\* --------------------------------------------------------------- C3
\* The workers that moved the batch they read out of its initial state.
Claimed(worker) == {w \in Workers : worker[w].pc = "claimed"}

\* C3: exclusive claim: of the workers that call start_processing on the same
\* batch in its initial state, at most one performs the transition; the batch
\* is never claimed twice.
C3_ExclusiveClaim ==
    /\ Cardinality(Claimed(vworker)) <= 1
    /\ Cardinality(Claimed(rworker)) <= 1

\* ------------------------------------------------- Transaction lifecycle
InitTx ==
    /\ now \in Clock
    /\ \E tx_type \in TransactionTypes, gas_limit \in Amounts, gas_price \in Amounts :
           tx = Transaction_new(tx_type, 0, gas_limit, gas_price, now)
    /\ tx_call = None
    /\ block = NoBlock
    /\ call = None
    /\ ret = None
    /\ vb = ValidationBatch_new(1, <<>>, "validator", 0)
    /\ rb = RelayerBatch_new(1, <<>>, "relayer", 0)
    /\ max_retries = 0
    /\ retry_answer = None
    /\ vworker = IdleWorkers
    /\ rworker = IdleWorkers
    /\ pending = NoPending
    /\ taken = NoTaken
    /\ task = NoTask
    /\ db = NoDb

Tx_UpdateStatus ==
    /\ \E status \in TransactionStatuses :
         /\ tx' = Transaction_update_status(tx, status)
         /\ tx_call' = Some([before |-> tx.status, arg |-> status])
    /\ UNCHANGED <<now, vb, rb, max_retries, retry_answer, vworker, rworker, block, call, ret,
                   pending, taken, task, db>>

NextTx == Tx_UpdateStatus

SpecTx == InitTx /\ [][NextTx]_vars

\* --------------------------------------------------------------- C10
TerminalTxStatus == {"Confirmed", "Failed", "Rejected"}

\* C10 as claimed: every transaction starts Pending, and once the status is
\* Confirmed, Failed or Rejected no update_status call changes it.
C10_TerminalStatusKept ==
    /\ tx_call = None => tx.status.kind = "Pending"
    /\ \A c \in tx_call :
           c.before.kind \in TerminalTxStatus => tx.status = c.before

\* C10 as amended: every transaction starts Pending and stays so until the
\* first update_status call; update_status(s) sets the status to s whatever
\* the status was, a Confirmed, Failed or Rejected one included.
C10_StartsPendingThenOverwritten ==
    /\ tx_call = None => tx.status = [kind |-> "Pending"]
    /\ \A c \in tx_call : tx.status = c.arg

\* update_status called on a Confirmed transaction put it back to Pending.
C10_Witness ==
    \E c \in tx_call :
        /\ c.before.kind = "Confirmed"
        /\ c.arg.kind = "Pending"
        /\ tx.status.kind = "Pending"

\* ----------------------------------------------- Transaction identity (C11)
\* Signature bytes a signing process fills in.
Signatures == {<<>>, <<1>>}

\* The signing process assigns the signature field (pub signature).
Tx_SetSignature ==
    /\ \E sig \in Signatures : tx' = [tx EXCEPT !.signature = sig]
    /\ UNCHANGED <<now, vb, rb, max_retries, retry_answer, vworker, rworker,
                   tx_call, block, call, ret,
                   pending, taken, task, db>>

NextTxId == Tx_UpdateStatus \/ Tx_SetSignature

SpecTxId == InitTx /\ [][NextTxId]_vars

\* C11: transaction identity stability: calculate_hash() equals the stored
\* hash after construction and after any sequence of update_status calls and
\* signature changes, and a step that changes the status changes no other field.
C11_IdentityStable ==
    /\ [](Transaction_calculate_hash(tx) = tx.hash)
    /\ [][tx'.hash = tx.hash]_vars
    /\ [][tx'.status # tx.status => tx' = [tx EXCEPT !.status = tx'.status]]_vars

\* A signed transaction whose status was updated to Confirmed.
C11_Witness ==
    /\ tx.signature # <<>>
    /\ tx.status.kind = "Confirmed"
    /\ tx_call # None
    /\ Transaction_calculate_hash(tx) = tx.hash

\* ------------------------------------------- Transaction constructors (C19)
\* The calls of the three constructors, over every argument value.
ConstructorCalls ==
    [fn : {"new_transfer"}, from : Addresses, to : Addresses, amount : Amounts,
     nonce : Amounts, gas_limit : Amounts, gas_price : Amounts]
    \cup [fn : {"new_call"}, from : Addresses, to : Addresses, data : {<<>>},
          amount : Amounts, nonce : Amounts, gas_limit : Amounts,
          gas_price : Amounts]
    \cup [fn : {"new_deploy"}, from : Addresses, code : {<<>>, <<1>>},
          init_data : {<<>>}, nonce : Amounts, gas_limit : Amounts,
          gas_price : Amounts]

\* The constructor a call names, applied to its arguments at time t.
Construct(c, t) ==
    CASE c.fn = "new_transfer" ->
           Transaction_new_transfer(c.from, c.to, c.amount, c.nonce,
                                    c.gas_limit, c.gas_price, t)
      [] c.fn = "new_call" ->
           Transaction_new_call(c.from, c.to, c.data, c.amount, c.nonce,
                                c.gas_limit, c.gas_price, t)
      [] c.fn = "new_deploy" ->
           Transaction_new_deploy(c.from, c.code, c.init_data, c.nonce,
                                  c.gas_limit, c.gas_price, t)

InitTxNew ==
    /\ now \in Clock
    /\ \E c \in ConstructorCalls : call = Some(c)
    /\ ret = None
    /\ vb = ValidationBatch_new(1, <<>>, "validator", 0)
    /\ rb = RelayerBatch_new(1, <<>>, "relayer", 0)
    /\ max_retries = 0
    /\ retry_answer = None
    /\ vworker = IdleWorkers
    /\ rworker = IdleWorkers
    /\ tx = NoTx
    /\ tx_call = None
    /\ block = NoBlock
    /\ pending = NoPending
    /\ taken = NoTaken
    /\ task = NoTask
    /\ db = NoDb

Tx_Construct ==
    /\ ret = None
    /\ \E c \in call : ret' = Some(Construct(c, now))
    /\ UNCHANGED <<now, vb, rb, max_retries, retry_answer, vworker, rworker,
                   tx, tx_call, block, call,
                   pending, taken, task, db>>

NextTxNew == Tx_Construct

SpecTxNew == InitTxNew /\ [][NextTxNew]_vars

\* The tx_type a constructor call asks for.
RequestedType(c) ==
    CASE c.fn = "new_transfer" ->
           [kind |-> "Transfer", from |-> c.from, to |-> c.to, amount |-> c.amount]
      [] c.fn = "new_call" ->
           [kind |-> "Call", from |-> c.from, to |-> c.to, data |-> c.data,
            amount |-> c.amount]
      [] c.fn = "new_deploy" ->
           [kind |-> "Deploy", from |-> c.from, code |-> c.code,
            init_data |-> c.init_data]

\* C19: every constructor succeeds for all argument values and returns a
\* transaction of the requested shape with status Pending, an empty
\* signature and a stored hash equal to calculate_hash().
C19_ConstructorsSucceed ==
    \A c \in call : \A r \in ret :
        /\ r.ok
        /\ r.value.tx_type = RequestedType(c)
        /\ r.value.nonce = c.nonce
        /\ r.value.gas_limit = c.gas_limit
        /\ r.value.gas_price = c.gas_price
        /\ r.value.status = [kind |-> "Pending"]
        /\ r.value.signature = <<>>
        /\ r.value.hash = Transaction_calculate_hash(r.value)
        /\ r.value.hash # ZeroHash

\* A constructor returned a transaction that validate_structure rejects.
C19_Witness ==
    \E r \in ret :
        /\ r.ok
        /\ r.value.tx_type.kind = "Transfer"
        /\ r.value.tx_type.from = r.value.tx_type.to
        /\ ~ Transaction_validate_structure(r.value).ok

\* ------------------------------------------------ validate_structure (C18)
\* Transactions as validate_structure meets them: constructed, then possibly
\* with the stored hash overwritten (pub hash).
ValidateCalls ==
    {[tx |-> [t EXCEPT !.hash = h]] :
        t \in {Transaction_new(tt, 0, gl, gp, 0) :
                   tt \in TransactionTypes, gl \in Amounts, gp \in Amounts},
        h \in {"own", "zero"}}

\* The transaction of a call, with the hash the call names.
CallTx(c) == IF c.tx.hash = "zero" THEN [c.tx EXCEPT !.hash = ZeroHash]
             ELSE [c.tx EXCEPT !.hash = Transaction_calculate_hash(c.tx)]

InitTxValidate ==
    /\ now \in Clock
    /\ \E c \in ValidateCalls : call = Some(c)
    /\ ret = None
    /\ vb = ValidationBatch_new(1, <<>>, "validator", 0)
    /\ rb = RelayerBatch_new(1, <<>>, "relayer", 0)
    /\ max_retries = 0
    /\ retry_answer = None
    /\ vworker = IdleWorkers
    /\ rworker = IdleWorkers
    /\ tx = NoTx
    /\ tx_call = None
    /\ block = NoBlock
    /\ pending = NoPending
    /\ taken = NoTaken
    /\ task = NoTask
    /\ db = NoDb

Tx_ValidateStructure ==
    /\ ret = None
    /\ \E c \in call : ret' = Some(Transaction_validate_structure(CallTx(c)))
    /\ UNCHANGED <<now, vb, rb, max_retries, retry_answer, vworker, rworker,
                   tx, tx_call, block, call,
                   pending, taken, task, db>>

NextTxValidate == Tx_ValidateStructure

SpecTxValidate == InitTxValidate /\ [][NextTxValidate]_vars

\* The conditions under which a transaction is structurally invalid.
StructurallyInvalid(t) ==
    LET tt == t.tx_type IN
    \/ tt.from = 0
    \/ tt.kind \in {"Transfer", "Call"} /\ tt.to = 0
    \/ tt.kind = "Transfer" /\ tt.amount = 0
    \/ tt.kind = "Transfer" /\ tt.from = tt.to
    \/ tt.kind = "Deploy" /\ Len(tt.code) = 0
    \/ t.gas_limit = 0
    \/ t.gas_price = 0
    \/ t.hash # Transaction_calculate_hash(t)

\* A Transfer to oneself whose other fields are valid.
SelfTransferOnly(t) ==
    /\ t.tx_type.kind = "Transfer"
    /\ t.tx_type.from = t.tx_type.to
    /\ t.tx_type.from # 0
    /\ t.tx_type.amount # 0
    /\ t.gas_limit # 0
    /\ t.gas_price # 0
    /\ t.hash = Transaction_calculate_hash(t)

\* C18: validate_structure() fails, with InvalidTransaction, exactly when the
\* transaction is structurally invalid, and returns Ok otherwise; a Transfer
\* to oneself with otherwise valid fields fails with the self-transfer reason.
C18_ValidateStructureExact ==
    \A c \in call : \A r \in ret :
        /\ ~ r.ok <=> StructurallyInvalid(CallTx(c))
        /\ ~ r.ok => r.kind = "InvalidTransaction"
        /\ SelfTransferOnly(CallTx(c))
             => ~ r.ok /\ r.reason = "Cannot transfer to self"

\* validate_structure rejected a self-transfer with the self-transfer reason.
C18_Witness ==
    \E c \in call : \E r \in ret :
        /\ SelfTransferOnly(CallTx(c))
        /\ r = Err("InvalidTransaction", "Cannot transfer to self")

\* ---------------------------------------------------- merkle root (C20)
InitMerkle ==
    /\ now \in Clock
    /\ \E txs \in TxLists : call = Some([transactions |-> txs])
    /\ ret = None
    /\ vb = ValidationBatch_new(1, <<>>, "validator", 0)
    /\ rb = RelayerBatch_new(1, <<>>, "relayer", 0)
    /\ max_retries = 0
    /\ retry_answer = None
    /\ vworker = IdleWorkers
    /\ rworker = IdleWorkers
    /\ tx = NoTx
    /\ tx_call = None
    /\ block = NoBlock
    /\ pending = NoPending
    /\ taken = NoTaken
    /\ task = NoTask
    /\ db = NoDb

Merkle_Calculate ==
    /\ ret = None
    /\ \E c \in call : ret' = Some(Block_calculate_merkle_root(c.transactions))
    /\ UNCHANGED <<now, vb, rb, max_retries, retry_answer, vworker, rworker,
                   tx, tx_call, block, call,
                   pending, taken, task, db>>

NextMerkle == Merkle_Calculate

SpecMerkle == InitMerkle /\ [][NextMerkle]_vars

\* H(a || b)
H(a, b) == <<"sha256", <<a, b>>>>

\* The merkle root of a list of up to six hashes, written out level by level.
HandComputedRoot(h) ==
    CASE Len(h) = 0 -> <<"zero">>
      [] Len(h) = 1 -> h[1]
      [] Len(h) = 2 -> H(h[1], h[2])
      [] Len(h) = 3 -> H(H(h[1], h[2]), H(h[3], h[3]))
      [] Len(h) = 4 -> H(H(h[1], h[2]), H(h[3], h[4]))
      [] Len(h) = 5 -> H(H(H(h[1], h[2]), H(h[3], h[4])),
                         H(H(h[5], h[5]), H(h[5], h[5])))
      [] Len(h) = 6 -> H(H(H(h[1], h[2]), H(h[3], h[4])),
                         H(H(h[5], h[6]), H(h[5], h[6])))

\* C20: the merkle root of the empty list is the all-zero hash, of [h] it is
\* h, and of a longer list the result of hashing consecutive pairs level by
\* level, the last element of an odd level paired with itself; the root of
\* [h1,h2,h3] is H(H(h1||h2) || H(h3||h3)).
C20_MerkleLaws ==
    \A c \in call : \A r \in ret :
        /\ r.ok
        /\ r.value = HandComputedRoot([i \in 1..Len(c.transactions) |->
                                           c.transactions[i].hash])

\* The root of a three-element list of distinct hashes was computed.
C20_Witness ==
    \E c \in call : \E r \in ret :
        /\ Len(c.transactions) = 3
        /\ c.transactions[1].hash # c.transactions[2].hash
        /\ c.transactions[2].hash # c.transactions[3].hash
        /\ c.transactions[1].hash # c.transactions[3].hash
        /\ r.value = H(H(c.transactions[1].hash, c.transactions[2].hash),
                       H(c.transactions[3].hash, c.transactions[3].hash))

\* ------------------------------------------------------ Block invariant (C12)
\* Previous-block hashes handed to Block::new.
PreviousHashes == {ZeroHash, Block_genesis(0).value.hash}

\* Nonces handed to set_nonce (u64).
BlockNonces == (0..MaxAmount) \cup {U64Max}

InitBlock ==
    /\ now \in Clock
    /\ \/ block = Block_genesis(now).value
       \/ \E h \in BlockHeights, p \in PreviousHashes, txs \in TxLists :
              block = Block_new(h, p, txs, 1, now).value
    /\ call = None
    /\ ret = None
    /\ vb = ValidationBatch_new(1, <<>>, "validator", 0)
    /\ rb = RelayerBatch_new(1, <<>>, "relayer", 0)
    /\ max_retries = 0
    /\ retry_answer = None
    /\ vworker = IdleWorkers
    /\ rworker = IdleWorkers
    /\ tx = NoTx
    /\ tx_call = None
    /\ pending = NoPending
    /\ taken = NoTaken
    /\ task = NoTask
    /\ db = NoDb

Block_SetNonce ==
    /\ \E n \in BlockNonces :
           /\ block' = Block_set_nonce(block, n)
           /\ call' = Some([nonce |-> n])
    /\ ret' = Some(Ok("unit"))
    /\ UNCHANGED <<now, vb, rb, max_retries, retry_answer, vworker, rworker,
                   tx, tx_call,
                   pending, taken, task, db>>

NextBlock == Block_SetNonce \/ Tick

SpecBlock == InitBlock /\ [][NextBlock]_vars

\* C12: a block produced by Block::new or Block::genesis and then changed by
\* set_nonce calls keeps transaction_count equal to the length of its
\* transaction list, hash equal to the hash of its current header, and
\* header.merkle_root equal to the merkle root of its transaction list.
C12_BlockInvariant ==
    /\ block.transaction_count = Len(block.transactions)
    /\ block.hash = hash_serializable(block.header)
    /\ block.header.merkle_root
         = HandComputedRoot([i \in 1..Len(block.transactions) |->
                                 block.transactions[i].hash])

\* set_nonce changed the nonce of a block that holds transactions.
C12_Witness ==
    /\ \E c \in call : c.nonce # 0 /\ block.header.nonce = c.nonce
    /\ Len(block.transactions) >= 3
    /\ block.hash # Block_new(block.header.height, block.header.previous_hash,
                              block.transactions, block.header.difficulty,
                              block.header.timestamp).value.hash

\* -------------------------------- merkle root and transaction list (C13)
\* Two transaction lists, each made into a block on the same parent at the
\* same time, and both blocks validated.
InitTwoBlocks ==
    /\ now \in Clock
    /\ \E txs_a \in TxListsOf(ValidTxs), txs_b \in TxListsOf(ValidTxs) :
           call = Some([a |-> txs_a, b |-> txs_b])
    /\ ret = None
    /\ vb = ValidationBatch_new(1, <<>>, "validator", 0)
    /\ rb = RelayerBatch_new(1, <<>>, "relayer", 0)
    /\ max_retries = 0
    /\ retry_answer = None
    /\ vworker = IdleWorkers
    /\ rworker = IdleWorkers
    /\ tx = NoTx
    /\ tx_call = None
    /\ block = NoBlock
    /\ pending = NoPending
    /\ taken = NoTaken
    /\ task = NoTask
    /\ db = NoDb

TwoBlocks_BuildAndValidate ==
    /\ ret = None
    /\ \E c \in call :
         LET block_a == Block_new(1, block.hash, c.a, 1, now).value
             block_b == Block_new(1, block.hash, c.b, 1, now).value
         IN ret' = Some([a |-> block_a,
                         b |-> block_b,
                         validate_a |-> Block_validate(block_a, now),
                         validate_b |-> Block_validate(block_b, now)])
    /\ UNCHANGED <<now, vb, rb, max_retries, retry_answer, vworker, rworker,
                   tx, tx_call, block, call,
                   pending, taken, task, db>>

NextTwoBlocks == TwoBlocks_BuildAndValidate

SpecTwoBlocks == InitTwoBlocks /\ [][NextTwoBlocks]_vars

\* The identity hashes of a transaction list, in order.
HashesOf(transactions) == [i \in 1..Len(transactions) |-> transactions[i].hash]

\* C13: two different ordered lists of transaction hashes have different
\* merkle roots, so two blocks that both pass validate() and have the same
\* header and identity hash hold the same ordered transaction list.
C13_RootFixesList ==
    \A r \in ret :
        /\ HashesOf(r.a.transactions) # HashesOf(r.b.transactions)
             => r.a.header.merkle_root # r.b.header.merkle_root
        /\ (/\ r.validate_a.ok
            /\ r.validate_b.ok
            /\ r.a.header = r.b.header
            /\ r.a.hash = r.b.hash)
             => r.a.transactions = r.b.transactions

\* ------------------------------------------------------- can_follow (C14)
\* Blocks handed to can_follow: built by Block::new at any height, on either
\* parent hash, at any time.
FollowBlocks ==
    {Block_new(h, p, <<>>, 1, t).value :
        h \in BlockHeights, p \in PreviousHashes, t \in Clock}

InitFollow ==
    /\ now \in Clock
    /\ \E p \in FollowBlocks :
         \E b \in FollowBlocks \cup
                  {Block_new(h, p.hash, <<>>, 1, t).value :
                       h \in BlockHeights, t \in Clock} :
             call = Some([b |-> b, previous_block |-> p])
    /\ ret = None
    /\ vb = ValidationBatch_new(1, <<>>, "validator", 0)
    /\ rb = RelayerBatch_new(1, <<>>, "relayer", 0)
    /\ max_retries = 0
    /\ retry_answer = None
    /\ vworker = IdleWorkers
    /\ rworker = IdleWorkers
    /\ tx = NoTx
    /\ tx_call = None
    /\ block = NoBlock
    /\ pending = NoPending
    /\ taken = NoTaken
    /\ task = NoTask
    /\ db = NoDb

Block_CanFollow ==
    /\ ret = None
    /\ \E c \in call, overflow_checks \in BOOLEAN :
           ret' = Some(Block_can_follow(c.b, c.previous_block, overflow_checks))
    /\ UNCHANGED <<now, vb, rb, max_retries, retry_answer, vworker, rworker,
                   tx, tx_call, block, call,
                   pending, taken, task, db>>

NextFollow == Block_CanFollow

SpecFollow == InitFollow /\ [][NextFollow]_vars

\* height = previous height + 1 over the naturals: no u64 is the successor
\* of u64::MAX.
IsNextHeight(height, previous_height) ==
    previous_height # U64Max /\ height = previous_height + 1

\* b links to p: next height, p's hash as previous_hash, strictly later.
Links(b, p) ==
    /\ IsNextHeight(b.header.height, p.header.height)
    /\ b.header.previous_hash = p.hash
    /\ b.header.timestamp > p.header.timestamp

\* C14: b.can_follow(p) succeeds exactly when b's height is p's height + 1,
\* b's previous_hash is p's hash and b's timestamp is strictly later than
\* p's; otherwise it yields BlockValidationFailed.
C14_FollowExact ==
    \A c \in call : \A r \in ret :
        /\ r.ok <=> Links(c.b, c.previous_block)
        /\ ~ r.ok => r.kind = "BlockValidationFailed"

\* ---------------------------------------------- building on the head (C15)
\* The head block, built by Block::genesis or Block::new at the current time.
InitChain ==
    /\ now \in Clock
    /\ \/ block = Block_genesis(now).value
       \/ \E h \in Heights, p \in PreviousHashes, txs \in TxListsOf(ValidTxs) :
              block = Block_new(h, p, txs, 1, now).value
    /\ call = None
    /\ ret = None
    /\ vb = ValidationBatch_new(1, <<>>, "validator", 0)
    /\ rb = RelayerBatch_new(1, <<>>, "relayer", 0)
    /\ max_retries = 0
    /\ retry_answer = None
    /\ vworker = IdleWorkers
    /\ rworker = IdleWorkers
    /\ tx = NoTx
    /\ tx_call = None
    /\ pending = NoPending
    /\ taken = NoTaken
    /\ task = NoTask
    /\ db = NoDb

\* b = Block::new(p.header.height + 1, p.hash, txs, difficulty); b.can_follow(&p)
Chain_BuildNext ==
    /\ ret = None
    /\ \E txs \in {<<>>} \cup {<<t>> : t \in ValidTxs}, overflow_checks \in BOOLEAN :
         LET b == Block_new(block.header.height + 1, block.hash, txs, 1, now).value
         IN /\ call' = Some([b |-> b, previous_block |-> block])
            /\ ret' = Some(Block_can_follow(b, block, overflow_checks))
    /\ UNCHANGED <<now, vb, rb, max_retries, retry_answer, vworker, rworker,
                   tx, tx_call, block,
                   pending, taken, task, db>>

NextChain == Chain_BuildNext \/ Tick

SpecChain == InitChain /\ [][NextChain]_vars

\* C15: a block built with Block::new(p.header.height + 1, p.hash, txs,
\* difficulty) after p was built passes can_follow(p), whatever the time
\* elapsed between the two constructions.
C15_BuildOnHeadLinks ==
    \A r \in ret : r.ok

\* ------------------------------------------------- Block::validate (C16, C17)
\* Timestamps a block can carry: a current one, and ones at and just past
\* the future tolerance of the latest clock reading.
BlockTimes == Clock \cup {MaxClock + MaxFutureMinutes, MaxClock + MaxFutureMinutes + 1}

\* Ways a built block is changed through its pub fields before validate().
Tamperings == {"none", "hash", "merkle_root", "transaction_count", "transactions"}

\* The block b with one tampering applied; a header change is followed by
\* a fresh hash, so that only the changed field is inconsistent.
Tamper(b, how) ==
    CASE how = "none" -> b
      [] how = "hash" -> [b EXCEPT !.hash = ZeroHash]
      [] how = "merkle_root" ->
           LET changed == [b EXCEPT !.header.merkle_root = hash_data(<<"other">>)]
           IN [changed EXCEPT !.hash = Block_calculate_hash(changed).value]
      [] how = "transaction_count" ->
           [b EXCEPT !.transaction_count = b.transaction_count + 1]
      [] how = "transactions" ->
           [b EXCEPT !.transactions = Append(b.transactions, SelfTransferTx)]

InitBlockValidate ==
    /\ now \in Clock
    /\ \E txs \in TxLists, t \in BlockTimes, how \in Tamperings :
           call = Some([block |-> Tamper(Block_new(1, ZeroHash, txs, 1, t).value, how)])
    /\ ret = None
    /\ vb = ValidationBatch_new(1, <<>>, "validator", 0)
    /\ rb = RelayerBatch_new(1, <<>>, "relayer", 0)
    /\ max_retries = 0
    /\ retry_answer = None
    /\ vworker = IdleWorkers
    /\ rworker = IdleWorkers
    /\ tx = NoTx
    /\ tx_call = None
    /\ block = NoBlock
    /\ pending = NoPending
    /\ taken = NoTaken
    /\ task = NoTask
    /\ db = NoDb

Block_Validate ==
    /\ ret = None
    /\ \E c \in call : ret' = Some(Block_validate(c.block, now))
    /\ UNCHANGED <<now, vb, rb, max_retries, retry_answer, vworker, rworker,
                   tx, tx_call, block, call,
                   pending, taken, task, db>>

NextBlockValidate == Block_Validate

SpecBlockValidate == InitBlockValidate /\ [][NextBlockValidate]_vars

\* The conditions a valid block meets at time t.
WellFormed(b, t) ==
    /\ b.hash = hash_serializable(b.header)
    /\ b.header.merkle_root = HandComputedRoot(HashesOf(b.transactions))
    /\ b.transaction_count = Len(b.transactions)
    /\ \A i \in 1..Len(b.transactions) : ~ StructurallyInvalid(b.transactions[i])
    /\ b.header.timestamp <= t + MaxFutureMinutes

\* C16: validate() succeeds exactly when the stored hash is the header hash,
\* header.merkle_root is the merkle root of the list, transaction_count is
\* the list length, every transaction passes validate_structure() and the
\* timestamp is not later than now + 10 minutes.
C16_ValidateExact ==
    \A c \in call : \A r \in ret : r.ok <=> WellFormed(c.block, now)

\* validate() accepted a block holding transactions whose timestamp is
\* exactly at the future tolerance.
C16_Witness ==
    \E c \in call : \E r \in ret :
        /\ r.ok
        /\ Len(c.block.transactions) >= 2
        /\ c.block.header.timestamp = now + MaxFutureMinutes

\* C17: every failure of validate() has the error kind BlockValidationFailed,
\* a failure of a contained transaction's validate_structure() included.
C17_AlwaysBlockValidationFailed ==
    \A r \in ret : ~ r.ok => r.kind = "BlockValidationFailed"

\* ------------------------------------------------------------ total_fee (C29)
InitFee ==
    /\ now \in Clock
    /\ \E gas_limit \in U64s, gas_price \in U64s, tt \in TransactionTypes :
           call = Some([tx |-> Transaction_new(tt, 0, gas_limit, gas_price, now)])
    /\ ret = None
    /\ vb = ValidationBatch_new(1, <<>>, "validator", 0)
    /\ rb = RelayerBatch_new(1, <<>>, "relayer", 0)
    /\ max_retries = 0
    /\ retry_answer = None
    /\ vworker = IdleWorkers
    /\ rworker = IdleWorkers
    /\ tx = NoTx
    /\ tx_call = None
    /\ block = NoBlock
    /\ pending = NoPending
    /\ taken = NoTaken
    /\ task = NoTask
    /\ db = NoDb

Tx_TotalFee ==
    /\ ret = None
    /\ \E c \in call, overflow_checks \in BOOLEAN :
           ret' = Some(Transaction_total_fee(c.tx, overflow_checks))
    /\ UNCHANGED <<now, vb, rb, max_retries, retry_answer, vworker, rworker,
                   tx, tx_call, block, call, pending, taken, task, db>>

NextFee == Tx_TotalFee

SpecFee == InitFee /\ [][NextFee]_vars

\* A u64 residue r as the number hi * 2^64 + lo.
Magnitude(r) == IF r < 0 THEN [hi |-> 1, lo |-> r] ELSE [hi |-> 0, lo |-> r]

\* v = a * b over the naturals, for u64 residues v, a and b:
\* (ah * 2^64 + al) * (bh * 2^64 + bl) compared coefficient by coefficient.
IsExactProduct(v, a, b) ==
    LET ma == Magnitude(a)
        mb == Magnitude(b)
        mv == Magnitude(v)
    IN /\ ma.hi * mb.hi = 0
       /\ ma.hi * mb.lo + mb.hi * ma.lo = mv.hi
       /\ ma.lo * mb.lo = mv.lo

\* C29: total_fee() returns the exact product gas_limit * gas_price for every
\* pair of u64 values, without wraparound and without aborting.
C29_TotalFeeExact ==
    \A c \in call : \A r \in ret :
        /\ r.ok
        /\ IsExactProduct(r.value, c.tx.gas_limit, c.tx.gas_price)

\* ------------------------------------------------------ Block aggregates (C30)
\* Transactions of small and of near-maximal amounts and fees, and a Deploy.
AggregateTxs ==
    {Transaction_new([kind |-> "Transfer", from |-> 1, to |-> 2, amount |-> a],
                     0, g, 1, 0) : a \in {1, U64Max}, g \in {1, U64Max}}
    \cup {Transaction_new([kind |-> "Deploy", from |-> 1, code |-> <<1>>,
                           init_data |-> <<>>], 0, 1, 1, 0)}

\* Transaction lists of up to two of them.
AggregateLists ==
    {<<>>} \cup {<<a>> : a \in AggregateTxs}
           \cup {<<a, b>> : a \in AggregateTxs, b \in AggregateTxs}

InitAggregates ==
    /\ now \in Clock
    /\ \E txs \in AggregateLists : block = Block_new(1, ZeroHash, txs, 1, now).value
    /\ call = None
    /\ ret = None
    /\ vb = ValidationBatch_new(1, <<>>, "validator", 0)
    /\ rb = RelayerBatch_new(1, <<>>, "relayer", 0)
    /\ max_retries = 0
    /\ retry_answer = None
    /\ vworker = IdleWorkers
    /\ rworker = IdleWorkers
    /\ tx = NoTx
    /\ tx_call = None
    /\ pending = NoPending
    /\ taken = NoTaken
    /\ task = NoTask
    /\ db = NoDb

Block_TotalTransactionValue ==
    /\ call' = Some([fn |-> "total_transaction_value"])
    /\ \E overflow_checks \in BOOLEAN :
           ret' = Some(Block_total_transaction_value(block, overflow_checks))
    /\ UNCHANGED <<now, vb, rb, max_retries, retry_answer, vworker, rworker,
                   tx, tx_call, block, pending, taken, task, db>>

Block_TotalFees ==
    /\ call' = Some([fn |-> "total_fees"])
    /\ \E overflow_checks \in BOOLEAN :
           ret' = Some(Block_total_fees(block, overflow_checks))
    /\ UNCHANGED <<now, vb, rb, max_retries, retry_answer, vworker, rworker,
                   tx, tx_call, block, pending, taken, task, db>>

NextAggregates == Block_TotalTransactionValue \/ Block_TotalFees

SpecAggregates == InitAggregates /\ [][NextAggregates]_vars

\* The number c2 * 2^128 + c1 * 2^64 + c0 that is the product of two u64
\* residues.
ProductOf(a, b) ==
    LET ma == Magnitude(a)
        mb == Magnitude(b)
    IN [c2 |-> ma.hi * mb.hi,
        c1 |-> ma.hi * mb.lo + mb.hi * ma.lo,
        c0 |-> ma.lo * mb.lo]

\* The sum over the naturals of the amounts, or of the fees, of a list.
RECURSIVE SumOver(_, _)
SumOver(transactions, what) ==
    IF Len(transactions) = 0 THEN [c2 |-> 0, c1 |-> 0, c0 |-> 0]
    ELSE LET first == IF what = "total_fees"
                        THEN ProductOf(Head(transactions).gas_limit,
                                       Head(transactions).gas_price)
                      ELSE ProductOf(Transaction_amount(Head(transactions)), 1)
             rest == SumOver(Tail(transactions), what)
         IN [c2 |-> first.c2 + rest.c2,
             c1 |-> first.c1 + rest.c1,
             c0 |-> first.c0 + rest.c0]

\* The u64 residue v is the number n.
IsNumber(v, n) ==
    n.c2 = 0 /\ n.c1 = Magnitude(v).hi /\ n.c0 = Magnitude(v).lo

\* C30: total_transaction_value() is the sum of amount() and total_fees()
\* the sum of total_fee() over the block's transactions, for every
\* transaction list, without wraparound.
C30_AggregatesExact ==
    \A c \in call : \A r \in ret :
        /\ r.ok
        /\ IsNumber(r.value, SumOver(block.transactions, c.fn))

\* ---------------------------------------------- Block methods together (C21)
\* Short transaction lists of the pool.
ShortTxLists ==
    {<<>>} \cup {<<a>> : a \in TxPool} \cup {<<a, b>> : a \in TxPool, b \in TxPool}

InitBlockOps ==
    /\ now \in Clock
    /\ \/ block = Block_genesis(now).value
       \/ \E h \in Heights, txs \in ShortTxLists :
              block = Block_new(h, ZeroHash, txs, 1, now).value
    /\ call = None
    /\ ret = None
    /\ vb = ValidationBatch_new(1, <<>>, "validator", 0)
    /\ rb = RelayerBatch_new(1, <<>>, "relayer", 0)
    /\ max_retries = 0
    /\ retry_answer = None
    /\ vworker = IdleWorkers
    /\ rworker = IdleWorkers
    /\ tx = NoTx
    /\ tx_call = None
    /\ pending = NoPending
    /\ taken = NoTaken
    /\ task = NoTask
    /\ db = NoDb

\* The methods of Block that take &self.
Block_Read ==
    /\ \E overflow_checks \in BOOLEAN :
          \/ /\ call' = Some([fn |-> "validate"])
             /\ ret' = Some(Block_validate(block, now))
          \/ /\ call' = Some([fn |-> "calculate_hash"])
             /\ ret' = Some(Block_calculate_hash(block))
          \/ /\ call' = Some([fn |-> "total_transaction_value"])
             /\ ret' = Some(Block_total_transaction_value(block, overflow_checks))
          \/ /\ call' = Some([fn |-> "total_fees"])
             /\ ret' = Some(Block_total_fees(block, overflow_checks))
    /\ UNCHANGED <<now, vb, rb, max_retries, retry_answer, vworker, rworker,
                   tx, tx_call, block, pending, taken, task, db>>

NextBlockOps == Block_SetNonce \/ Block_Read \/ Tick

SpecBlockOps == InitBlockOps /\ [][NextBlockOps]_vars

\* The call just made is set_nonce(n).
IsSetNonce(c) == "nonce" \in DOMAIN c

\* C21: only set_nonce(n) changes a constructed Block: it sets header.nonce
\* to n and the stored hash to the hash of the updated header and leaves
\* every other field unchanged; a block that passed validate() before
\* set_nonce still passes after it.
C21_OnlySetNonceChanges ==
    /\ [][block' # block =>
            \E c \in call' :
                /\ IsSetNonce(c)
                /\ block' = [block EXCEPT
                                 !.header.nonce = c.nonce,
                                 !.hash = hash_serializable(
                                              [block.header EXCEPT !.nonce = c.nonce])]
         ]_vars
    /\ [][(call' # call /\ \E c \in call' : IsSetNonce(c)) =>
            \E c \in call' : block'.header.nonce = c.nonce /\ block'.size = block.size
         ]_vars
    /\ [][Block_validate(block, now).ok => Block_validate(block', now').ok]_vars

\* set_nonce changed the nonce of a block of two transactions that passes
\* validate().
C21_Witness ==
    /\ \E c \in call : IsSetNonce(c) /\ c.nonce # 0 /\ block.header.nonce = c.nonce
    /\ Len(block.transactions) = 2
    /\ block.size = 2
    /\ Block_validate(block, now).ok

\* ------------------------------------------------ pending pool (C22 .. C26)
\* Transactions submitted to the pool with timestamp t: valid transfers of
\* gas price 1 and 2, a self-transfer, and a transfer whose stored hash was
\* overwritten with the hash of another one.
MempoolTransfer(gas_price, t) ==
    Transaction_new([kind |-> "Transfer", from |-> 1, to |-> 2, amount |-> 1],
                    0, 1, gas_price, t)
MempoolTxs(t) ==
    {MempoolTransfer(1, t), MempoolTransfer(2, t)}
    \cup {Transaction_new([kind |-> "Transfer", from |-> 1, to |-> 1, amount |-> 1],
                          0, 1, 1, t)}
    \cup {[MempoolTransfer(2, t) EXCEPT !.hash = MempoolTransfer(1, t).hash]}

InitMempool ==
    /\ now = 0
    /\ pending = <<>>
    /\ call = None
    /\ ret = None
    /\ vb = ValidationBatch_new(1, <<>>, "validator", 0)
    /\ rb = RelayerBatch_new(1, <<>>, "relayer", 0)
    /\ max_retries = 0
    /\ retry_answer = None
    /\ vworker = IdleWorkers
    /\ rworker = IdleWorkers
    /\ tx = NoTx
    /\ tx_call = None
    /\ block = NoBlock
    /\ taken = NoTaken
    /\ task = NoTask
    /\ db = NoDb

\* admit(transaction)
Mempool_Admit ==
    /\ Len(pending) < MaxPending
    /\ \E t \in Clock :
         \E submitted \in MempoolTxs(t), position \in 1..(Len(pending) + 1),
            overflow_checks \in BOOLEAN :
             LET done == Adapter_add_pending_transaction(pending, submitted,
                                                         position, overflow_checks)
             IN /\ pending' = done.table
                /\ call' = Some([op |-> "admit", tx |-> submitted])
                /\ ret' = Some(done.result)
    /\ UNCHANGED <<now, vb, rb, max_retries, retry_answer, vworker, rworker,
                   tx, tx_call, block, taken, task, db>>

\* remove(tx_hash)
Mempool_Remove ==
    /\ \E t \in Clock : \E submitted \in MempoolTxs(t) :
          LET done == Adapter_remove_pending_transaction(pending, submitted.hash)
          IN /\ pending' = done.table
             /\ call' = Some([op |-> "remove", tx_hash |-> submitted.hash])
             /\ ret' = Some(done.result)
    /\ UNCHANGED <<now, vb, rb, max_retries, retry_answer, vworker, rworker,
                   tx, tx_call, block, taken, task, db>>

\* take(limit)
Mempool_Take ==
    /\ \E limit \in 1..MaxPending :
          LET done == Adapter_get_pending_transactions(pending, limit)
          IN /\ pending' = done.table
             /\ call' = Some([op |-> "take", limit |-> limit])
             /\ ret' = Some(done.result)
    /\ UNCHANGED <<now, vb, rb, max_retries, retry_answer, vworker, rworker,
                   tx, tx_call, block, taken, task, db>>

NextMempool == Mempool_Admit \/ Mempool_Remove \/ Mempool_Take

SpecMempool == InitMempool /\ [][NextMempool]_vars

\* The transactions of the pool.
PoolTxs == {bincode_deserialize(pending[i].tx_data) : i \in 1..Len(pending)}

\* gas_price * gas_limit of a pool transaction (small in this pool).
Score(t) == t.gas_price * t.gas_limit

\* a is served before b: strictly higher score, or equal score and earlier
\* submission.
Before(a, b) ==
    \/ Score(a) > Score(b)
    \/ Score(a) = Score(b) /\ a.timestamp < b.timestamp

\* C22: take(limit) returns min(limit, pool size) pending transactions in
\* priority order: higher score first, among equal scores the earlier
\* submission timestamp first.
C22_TakeInPriorityOrder ==
    \A c \in call : \A r \in ret :
        c.op = "take" =>
            /\ r.ok
            /\ Len(r.value) = (IF c.limit < Len(pending) THEN c.limit ELSE Len(pending))
            /\ \A i \in 1..Len(r.value) : r.value[i] \in PoolTxs
            /\ \A i, j \in 1..Len(r.value) : i < j => ~ Before(r.value[j], r.value[i])
            /\ \A i \in 1..Len(r.value) :
                 \A left \in PoolTxs \ {r.value[k] : k \in 1..Len(r.value)} :
                     ~ Before(left, r.value[i])

\* C23: admitting a transaction that fails validate_structure() signals
\* InvalidTransaction and leaves the pending pool unchanged; every transaction
\* in the pool passes validate_structure().
C23_AdmissionGate ==
    /\ [](\A t \in PoolTxs : Transaction_validate_structure(t).ok)
    /\ [](\A c \in call : \A r \in ret :
            (c.op = "admit" /\ ~ Transaction_validate_structure(c.tx).ok)
                => (~ r.ok /\ r.kind = "InvalidTransaction"))
    /\ [][(\E c \in call' :
              c.op = "admit" /\ ~ Transaction_validate_structure(c.tx).ok)
            => pending' = pending]_vars

\* What take returns with a limit as large as the pool.
TakeAll == Adapter_get_pending_transactions(pending, MaxPending).result.value

\* C25: after admit(tx), take with a large enough limit returns tx; after
\* remove(tx.hash) it returns no transaction of that hash; remove of a hash
\* that is not in the pool succeeds and leaves the pool unchanged, and a
\* second remove of the same hash changes nothing.
C25_RemoveIdempotent ==
    /\ [](\A c \in call : \A r \in ret :
            /\ (c.op = "admit" /\ r.ok) => \E i \in 1..Len(TakeAll) : TakeAll[i] = c.tx
            /\ c.op = "remove" =>
                 /\ r.ok
                 /\ \A i \in 1..Len(TakeAll) : TakeAll[i].hash # c.tx_hash)
    /\ [][\A c \in call' :
            (c.op = "remove" /\ \A i \in 1..Len(pending) : pending[i].tx_hash # c.tx_hash)
                => pending' = pending]_vars
    /\ [][(\E c \in call : c.op = "remove" /\ c \in call') => pending' = pending]_vars

(***************************************************************************)
(* The pool under admit, remove and take of well-formed transfers only.    *)
(***************************************************************************)
TakeTxs == {MempoolTransfer(gas_price, t) : gas_price \in 1..2, t \in Clock}

\* admit(transaction) of a well-formed transfer
Take_Admit ==
    /\ Len(pending) < MaxPending
    /\ \E submitted \in TakeTxs, position \in 1..(Len(pending) + 1),
          overflow_checks \in BOOLEAN :
           LET done == Adapter_add_pending_transaction(pending, submitted,
                                                       position, overflow_checks)
           IN /\ pending' = done.table
              /\ call' = Some([op |-> "admit", tx |-> submitted])
              /\ ret' = Some(done.result)
    /\ UNCHANGED <<now, vb, rb, max_retries, retry_answer, vworker, rworker,
                   tx, tx_call, block, taken, task, db>>

\* remove(tx_hash) of a well-formed transfer
Take_Remove ==
    /\ \E submitted \in TakeTxs :
          LET done == Adapter_remove_pending_transaction(pending, submitted.hash)
          IN /\ pending' = done.table
             /\ call' = Some([op |-> "remove", tx_hash |-> submitted.hash])
             /\ ret' = Some(done.result)
    /\ UNCHANGED <<now, vb, rb, max_retries, retry_answer, vworker, rworker,
                   tx, tx_call, block, taken, task, db>>

NextTake == Take_Admit \/ Take_Remove \/ Mempool_Take

SpecTake == InitMempool /\ [][NextTake]_vars

\* C26: take(limit) leaves the pending pool unchanged, and a take(limit) that
\* follows a take(limit) with no admit or remove in between returns the same
\* transactions in the same order.
C26_TakeLeavesPool ==
    /\ [][(\E c \in call' : c.op = "take") => pending' = pending]_vars
    /\ [][(\E c \in call : c.op = "take" /\ c \in call') => ret' = ret]_vars
    /\ [](\A c \in call : \A r \in ret :
            c.op = "take" =>
                /\ Len(r.value) = (IF c.limit < Len(pending) THEN c.limit
                                   ELSE Len(pending))
                /\ \A i \in 1..Len(r.value) :
                       r.value[i] = bincode_deserialize(pending[i].tx_data))

\* take returned two transactions and the pool still holds them, in that
\* order.
C26_Witness ==
    \E c \in call : \E r \in ret :
        /\ c.op = "take"
        /\ Len(r.value) >= 2
        /\ Len(pending) >= 2
        /\ r.value[1] = bincode_deserialize(pending[1].tx_data)
        /\ r.value[2] = bincode_deserialize(pending[2].tx_data)

(***************************************************************************)
(* complete_validation on the whole ValidationResult.                      *)
(***************************************************************************)
\* Vec<FailedTransaction> values of a result.
FailedTransactionLists ==
    {<<>>} \cup {<<[tx_hash |-> h, error_code |-> "invalid"]>> : h \in TxHashes}

\* ValidationResult values with the transaction lists the validator fills in.
FullValidationResults ==
    [is_valid : BOOLEAN,
     validated_transactions : TxHashLists,
     failed_transactions : FailedTransactionLists]

VB_CompleteWithResult ==
    /\ \E result \in FullValidationResults :
           vb' = ValidationBatch_complete_validation(vb, result, now)
    /\ UNCHANGED <<now, rb, max_retries, retry_answer, vworker, rworker, tx,
                   tx_call, block, call, ret, pending, taken, task, db>>

NextVerdict == Tick \/ VB_StartProcessing \/ VB_CompleteWithResult

SpecVerdict == InitVB /\ [][NextVerdict]_vars

Covers(hashes, list) ==
    \A i \in 1..Len(hashes) : \E j \in 1..Len(list) : list[j] = hashes[i]

\* C27: after complete_validation(result) the batch is Validated only if
\* result.failed_transactions is empty and validated_transactions covers
\* tx_hashes, and Failed only if at least one transaction is recorded as
\* failed.
C27_VerdictMatchesResult ==
    \A result \in vb.validation_result :
        /\ vb.validation_status = "Validated" =>
              /\ result.failed_transactions = <<>>
              /\ Covers(vb.tx_hashes, result.validated_transactions)
        /\ vb.validation_status = "Failed" =>
              result.failed_transactions # <<>>

(***************************************************************************)
(* Batch formers draining the pool concurrently with submitters.           *)
(***************************************************************************)
RECURSIVE remove_all(_, _)
\* remove_pending_transaction for each transaction of a formed batch
remove_all(table, transactions) ==
    IF transactions = <<>> THEN table
    ELSE remove_all(Adapter_remove_pending_transaction(table, Head(transactions).hash).table,
                    Tail(transactions))

\* A batch former reads up to limit transactions for its next batch.
Former_Take(w) ==
    /\ taken[w] = None
    /\ pending # <<>>
    /\ \E limit \in 1..MaxPending :
          LET done == Adapter_get_pending_transactions(pending, limit)
          IN /\ pending' = done.table
             /\ taken' = [taken EXCEPT ![w] = Some(done.result.value)]
    /\ UNCHANGED <<now, vb, rb, max_retries, retry_answer, vworker, rworker,
                   tx, tx_call, block, call, ret, task, db>>

\* The former hands its batch on and removes the batch's transactions from
\* the pool.
Former_Drain(w) ==
    /\ \E transactions \in taken[w] :
          pending' = remove_all(pending, transactions)
    /\ taken' = [taken EXCEPT ![w] = None]
    /\ UNCHANGED <<now, vb, rb, max_retries, retry_answer, vworker, rworker,
                   tx, tx_call, block, call, ret, task, db>>

\* Transfers of distinct fees submitted while the formers run.
FormerTxs == {MempoolTransfer(gas_price, 0) : gas_price \in 1..MaxPending}

\* A submitter admits a transfer.
Former_Admit ==
    /\ Len(pending) < MaxPending
    /\ \E submitted \in FormerTxs, position \in 1..(Len(pending) + 1),
          overflow_checks \in BOOLEAN :
           LET done == Adapter_add_pending_transaction(pending, submitted,
                                                       position, overflow_checks)
           IN /\ pending' = done.table
              /\ call' = Some([op |-> "admit", tx |-> submitted])
              /\ ret' = Some(done.result)
    /\ UNCHANGED <<now, vb, rb, max_retries, retry_answer, vworker, rworker,
                   tx, tx_call, block, taken, task, db>>

NextFormers ==
    \/ Former_Admit
    \/ \E w \in Workers : Former_Take(w)
    \/ \E w \in Workers : Former_Drain(w)

SpecFormers == InitMempool /\ [][NextFormers]_vars

\* C24: two concurrent take() calls made to form different batches never
\* return a common transaction (the adapter has no reservation, so no
\* transaction is ever reserved).
C24_TakesDisjoint ==
    \A w1, w2 \in Workers :
        w1 # w2 =>
            \A l1 \in taken[w1] : \A l2 \in taken[w2] :
                \A i \in 1..Len(l1) : \A j \in 1..Len(l2) : l1[i] # l2[j]

(***************************************************************************)
(* The prepared-statement lock guard of the storage operations.  Each      *)
(* task runs one operation: pc "lock" is the await of                      *)
(* prepared_statements.read(), pc "query" and pc "execute" are awaits of   *)
(* the database session; guard says whether the task holds the read guard. *)
(***************************************************************************)
StorageOps ==
    {"store_block", "store_transaction", "add_pending_transaction",
     "remove_pending_transaction", "update_account", "get_account"}

\* The task enters a storage operation.  remove_pending_transaction first
\* looks the row up with an unprepared query; the others start by taking
\* the read guard.
Task_Begin(w) ==
    /\ task[w].pc = "idle"
    /\ \E op \in StorageOps :
          task' = [task EXCEPT ![w] =
                       [op |-> op,
                        pc |-> IF op = "remove_pending_transaction"
                               THEN "query" ELSE "lock",
                        guard |-> FALSE]]
    /\ UNCHANGED <<now, vb, rb, max_retries, retry_answer, vworker, rworker,
                   tx, tx_call, block, call, ret, pending, taken, db>>

\* remove_pending_transaction: the lookup returns; with no row the
\* operation returns Ok(()), with a row it goes on to the delete.
Task_QueryDone(w) ==
    /\ task[w].pc = "query"
    /\ \E found \in BOOLEAN :
          task' = [task EXCEPT ![w] =
                       IF found THEN [@ EXCEPT !.pc = "lock"]
                       ELSE [op |-> "none", pc |-> "idle", guard |-> FALSE]]
    /\ UNCHANGED <<now, vb, rb, max_retries, retry_answer, vworker, rworker,
                   tx, tx_call, block, call, ret, pending, taken, db>>

\* let statements = self.prepared_statements.read().await; the statement
\* borrowed from the guard is then passed to session.execute(..).await.
Task_ReadLock(w) ==
    /\ task[w].pc = "lock"
    /\ task' = [task EXCEPT ![w] = [@ EXCEPT !.pc = "execute", !.guard = TRUE]]
    /\ UNCHANGED <<now, vb, rb, max_retries, retry_answer, vworker, rworker,
                   tx, tx_call, block, call, ret, pending, taken, db>>

\* The execute returns and the operation ends; the guard is dropped at the
\* end of the function body.
Task_ExecuteDone(w) ==
    /\ task[w].pc = "execute"
    /\ task' = [task EXCEPT ![w] = [op |-> "none", pc |-> "idle", guard |-> FALSE]]
    /\ UNCHANGED <<now, vb, rb, max_retries, retry_answer, vworker, rworker,
                   tx, tx_call, block, call, ret, pending, taken, db>>

NextTasks ==
    \/ \E w \in Workers : Task_Begin(w)
    \/ \E w \in Workers : Task_QueryDone(w)
    \/ \E w \in Workers : Task_ReadLock(w)
    \/ \E w \in Workers : Task_ExecuteDone(w)

SpecTasks == InitMempool /\ [][NextTasks]_vars

\* C28: no storage operation holds the prepared-statement lock guard while
\* it is suspended on a database execute or query.
C28_NoGuardAcrossAwait ==
    \A w \in Workers :
        task[w].pc \in {"query", "execute"} => ~task[w].guard

\* C39: in every reachable RelayerBatch state, commitment_data is present
\* exactly when the status is Committed, and last_attempt is present
\* whenever the status is not Queued.
C39_RelayerFieldsMatchStatus ==
    /\ (rb.commitment_data # None) <=> (rb.status = "Committed")
    /\ rb.status # "Queued" => rb.last_attempt # None

\* C40: in every reachable ValidationBatch state, validation_result and
\* completed_at are present exactly when the status is Validated or Failed,
\* the status is Validated exactly when the stored result has is_valid =
\* TRUE, and started_at is present whenever the status is Processing.
C40_ValidationFieldsMatchStatus ==
    /\ (vb.validation_result # None) <=> (vb.validation_status \in {"Validated", "Failed"})
    /\ (vb.completed_at # None) <=> (vb.validation_status \in {"Validated", "Failed"})
    /\ (vb.validation_status = "Validated")
           <=> (\E result \in vb.validation_result : result.is_valid)
    /\ vb.validation_status = "Processing" => vb.started_at # None

(***************************************************************************)
(* The RelayerBatch operations with the call that was made on record.      *)
(***************************************************************************)
RB_Call ==
    /\ \E c \in [op : {"start_processing"}, target_block_height : Heights]
                \cup [op : {"mark_committed"}, commitment_data : CommitmentDatas]
                \cup [op : {"mark_failed"}] :
          /\ c.op = "mark_failed" => rb.retry_count < MaxRetryCount
          /\ call' = Some(c)
          /\ rb' = CASE c.op = "start_processing" ->
                          RelayerBatch_start_processing(rb, c.target_block_height, now)
                     [] c.op = "mark_committed" ->
                          RelayerBatch_mark_committed(rb, c.commitment_data)
                     [] c.op = "mark_failed" ->
                          RelayerBatch_mark_failed(rb, now)
    /\ UNCHANGED <<now, vb, max_retries, retry_answer, vworker, rworker, tx,
                   tx_call, block, ret, pending, taken, task, db>>

SpecRBCalls == InitRB /\ [][RB_Call]_vars

Tx_Accessors ==
    /\ ret = None
    /\ ret' = Some([sender |-> Transaction_sender(tx),
                    recipient |-> Transaction_recipient(tx),
                    amount |-> Transaction_amount(tx)])
    /\ UNCHANGED <<now, vb, rb, max_retries, retry_answer, vworker, rworker,
                   tx, tx_call, block, call, pending, taken, task, db>>

SpecAccessors == InitTx /\ [][Tx_Accessors]_vars

\* C34: sender() is the from address of Transfer, Deploy and Call;
\* recipient() is Some(to) for Transfer and Call and None for Deploy;
\* amount() is the amount of Transfer and Call and 0 for Deploy.
C34_AccessorsUniform ==
    \A r \in ret :
        /\ r.sender = tx.tx_type.from
        /\ tx.tx_type.kind \in {"Transfer", "Call"} =>
              /\ r.recipient = Some(tx.tx_type.to)
              /\ r.amount = tx.tx_type.amount
        /\ tx.tx_type.kind = "Deploy" =>
              /\ r.recipient = None
              /\ r.amount = 0

\* The accessors were read off a Call that moves a non-zero amount between
\* two different addresses.
C34_Witness ==
    /\ ret # None
    /\ tx.tx_type.kind = "Call"
    /\ tx.tx_type.amount > 0
    /\ tx.tx_type.from # tx.tx_type.to

(***************************************************************************)
(* Block::genesis() followed by the &self methods as time passes.          *)
(***************************************************************************)
Block_Genesis ==
    /\ block' = Block_genesis(now).value
    /\ call' = Some([fn |-> "genesis"])
    /\ ret' = Some(Block_genesis(now))
    /\ UNCHANGED <<now, vb, rb, max_retries, retry_answer, vworker, rworker,
                   tx, tx_call, pending, taken, task, db>>

SpecGenesis == InitBlockOps /\ [][Block_Genesis \/ Block_Read \/ Tick]_vars

\* C31: the genesis block has height 0, an all-zero previous_hash, an empty
\* transaction list with transaction_count 0, an all-zero merkle root,
\* difficulty 1, nonce 0 and version 1, and passes validate().
C31_GenesisShape ==
    /\ [](\A c \in call : c.fn = "genesis" =>
            \A r \in ret :
                /\ r.ok
                /\ block = r.value
                /\ block.header.height = 0
                /\ block.header.previous_hash = ZeroHash
                /\ block.transactions = <<>>
                /\ block.transaction_count = 0
                /\ block.header.merkle_root = ZeroHash
                /\ block.header.difficulty = 1
                /\ block.header.nonce = 0
                /\ block.header.version = 1)
    /\ [][((\E c \in call : c.fn = "genesis") /\ (\E c \in call' : c.fn = "validate"))
              => \A r \in ret' : r.ok]_vars

\* validate() passed on a genesis block built earlier.
C31_Witness ==
    /\ \E c \in call : c.fn = "validate"
    /\ \E r \in ret : r.ok
    /\ block.header.height = 0
    /\ block.transactions = <<>>
    /\ block.header.difficulty = 1
    /\ block.header.timestamp < now

(***************************************************************************)
(* Status text encoding: Display and FromStr of the three status enums.    *)
(* A text is a sequence of characters, each a one-character string;        *)
(* "U+212A" is the Kelvin sign, the one character outside ASCII whose      *)
(* lowercase is an ASCII letter.                                           *)
(***************************************************************************)
PeerStatus == {"Connected", "Disconnected", "Banned", "Syncing"}

\* char::to_lowercase on the characters that have one.
LowercaseOf ==
    "A" :> "a" @@ "B" :> "b" @@ "C" :> "c" @@ "D" :> "d" @@ "E" :> "e" @@ "F" :> "f"
    @@ "G" :> "g" @@ "H" :> "h" @@ "I" :> "i" @@ "J" :> "j" @@ "K" :> "k" @@ "L" :> "l"
    @@ "M" :> "m" @@ "N" :> "n" @@ "O" :> "o" @@ "P" :> "p" @@ "Q" :> "q" @@ "R" :> "r"
    @@ "S" :> "s" @@ "T" :> "t" @@ "U" :> "u" @@ "V" :> "v" @@ "W" :> "w" @@ "X" :> "x"
    @@ "Y" :> "y" @@ "Z" :> "z" @@ "U+212A" :> "k"

\* to_lowercase that leaves the text as it is.
to_lowercase_identity(s) == s

\* str::to_lowercase
to_lowercase(s) ==
    [i \in 1..Len(s) |-> IF s[i] \in DOMAIN LowercaseOf THEN LowercaseOf[s[i]] ELSE s[i]]

\* impl Display for ValidationStatus
ValidationStatus_fmt(s) ==
    CASE s = "Pending" -> <<"p", "e", "n", "d", "i", "n", "g">>
      [] s = "Processing" -> <<"p", "r", "o", "c", "e", "s", "s", "i", "n", "g">>
      [] s = "Validated" -> <<"v", "a", "l", "i", "d", "a", "t", "e", "d">>
      [] s = "Failed" -> <<"f", "a", "i", "l", "e", "d">>
      [] s = "Rejected" -> <<"r", "e", "j", "e", "c", "t", "e", "d">>

\* impl FromStr for ValidationStatus
ValidationStatus_from_str(s) ==
    LET lowered == to_lowercase(s) IN
    CASE lowered = <<"p", "e", "n", "d", "i", "n", "g">> -> Ok("Pending")
      [] lowered = <<"p", "r", "o", "c", "e", "s", "s", "i", "n", "g">> -> Ok("Processing")
      [] lowered = <<"v", "a", "l", "i", "d", "a", "t", "e", "d">> -> Ok("Validated")
      [] lowered = <<"f", "a", "i", "l", "e", "d">> -> Ok("Failed")
      [] lowered = <<"r", "e", "j", "e", "c", "t", "e", "d">> -> Ok("Rejected")
      [] OTHER -> Err("String", <<"Invalid validation status: ", s>>)

\* impl Display for RelayerStatus
RelayerStatus_fmt(s) ==
    CASE s = "Queued" -> <<"q", "u", "e", "u", "e", "d">>
      [] s = "Processing" -> <<"p", "r", "o", "c", "e", "s", "s", "i", "n", "g">>
      [] s = "Committed" -> <<"c", "o", "m", "m", "i", "t", "t", "e", "d">>
      [] s = "Failed" -> <<"f", "a", "i", "l", "e", "d">>
      [] s = "Cancelled" -> <<"c", "a", "n", "c", "e", "l", "l", "e", "d">>

\* impl FromStr for RelayerStatus
RelayerStatus_from_str(s) ==
    LET lowered == to_lowercase(s) IN
    CASE lowered = <<"q", "u", "e", "u", "e", "d">> -> Ok("Queued")
      [] lowered = <<"p", "r", "o", "c", "e", "s", "s", "i", "n", "g">> -> Ok("Processing")
      [] lowered = <<"c", "o", "m", "m", "i", "t", "t", "e", "d">> -> Ok("Committed")
      [] lowered = <<"f", "a", "i", "l", "e", "d">> -> Ok("Failed")
      [] lowered = <<"c", "a", "n", "c", "e", "l", "l", "e", "d">> -> Ok("Cancelled")
      [] OTHER -> Err("String", <<"Invalid relayer status: ", s>>)

\* impl Display for PeerStatus
PeerStatus_fmt(s) ==
    CASE s = "Connected" -> <<"c", "o", "n", "n", "e", "c", "t", "e", "d">>
      [] s = "Disconnected" -> <<"d", "i", "s", "c", "o", "n", "n", "e", "c", "t", "e", "d">>
      [] s = "Banned" -> <<"b", "a", "n", "n", "e", "d">>
      [] s = "Syncing" -> <<"s", "y", "n", "c", "i", "n", "g">>

\* impl FromStr for PeerStatus
PeerStatus_from_str(s) ==
    LET lowered == to_lowercase(s) IN
    CASE lowered = <<"c", "o", "n", "n", "e", "c", "t", "e", "d">> -> Ok("Connected")
      [] lowered = <<"d", "i", "s", "c", "o", "n", "n", "e", "c", "t", "e", "d">> -> Ok("Disconnected")
      [] lowered = <<"b", "a", "n", "n", "e", "d">> -> Ok("Banned")
      [] lowered = <<"s", "y", "n", "c", "i", "n", "g">> -> Ok("Syncing")
      [] OTHER -> Err("String", <<"Invalid peer status: ", s>>)

\* The three enums, their variants and their Display / FromStr.
StatusEnums == {"ValidationStatus", "RelayerStatus", "PeerStatus"}

Variants(enum) ==
    CASE enum = "ValidationStatus" -> ValidationStatus
      [] enum = "RelayerStatus" -> RelayerStatus
      [] enum = "PeerStatus" -> PeerStatus

to_string(enum, s) ==
    CASE enum = "ValidationStatus" -> ValidationStatus_fmt(s)
      [] enum = "RelayerStatus" -> RelayerStatus_fmt(s)
      [] enum = "PeerStatus" -> PeerStatus_fmt(s)

parse(enum, text) ==
    CASE enum = "ValidationStatus" -> ValidationStatus_from_str(text)
      [] enum = "RelayerStatus" -> RelayerStatus_from_str(text)
      [] enum = "PeerStatus" -> PeerStatus_from_str(text)

\* Texts a stored status column can hold: what Display wrote, the same with
\* up to MaxUpper letters (or all of them) in upper case, and texts that are
\* no status: empty, one character short, one character replaced, padded.
StoredTexts(text) ==
    LET Recase(positions) ==
            [i \in 1..Len(text) |->
                IF i \in positions
                THEN CHOOSE u \in DOMAIN LowercaseOf :
                         u # "U+212A" /\ LowercaseOf[u] = text[i]
                ELSE text[i]]
    IN {Recase(ps) : ps \in {q \in SUBSET (1..Len(text)) : Cardinality(q) <= MaxUpper}}
       \cup {Recase(1..Len(text))}
       \cup {<<>>, text \o <<" ">>}
       \cup {SubSeq(text, 1, i - 1) \o SubSeq(text, i + 1, Len(text)) : i \in 1..Len(text)}
       \cup {[text EXCEPT ![i] = ch] : i \in 1..Len(text), ch \in {"x", "1", "U+212A"}}

InitStatusText ==
    /\ \E enum \in StatusEnums, from \in StatusEnums :
         \E s \in Variants(from) :
           \E text \in StoredTexts(to_string(from, s)) :
               call = Some([enum |-> enum, text |-> text])
    /\ ret = None
    /\ now = 0
    /\ vb = ValidationBatch_new(1, <<>>, "validator", 0)
    /\ rb = RelayerBatch_new(1, <<>>, "relayer", 0)
    /\ max_retries = 0
    /\ retry_answer = None
    /\ vworker = IdleWorkers
    /\ rworker = IdleWorkers
    /\ tx = NoTx
    /\ tx_call = None
    /\ block = NoBlock
    /\ pending = NoPending
    /\ taken = NoTaken
    /\ task = NoTask
    /\ db = NoDb

\* text.parse::<enum>()
Status_FromStr ==
    /\ ret = None
    /\ \E c \in call : ret' = Some(parse(c.enum, c.text))
    /\ UNCHANGED <<now, vb, rb, max_retries, retry_answer, vworker, rworker,
                   tx, tx_call, block, call, pending, taken, task, db>>

SpecStatusText == InitStatusText /\ [][Status_FromStr]_vars

\* The ASCII letters, lower and upper case.
AsciiLower == <<"a", "b", "c", "d", "e", "f", "g", "h", "i", "j", "k", "l", "m">>
              \o <<"n", "o", "p", "q", "r", "s", "t", "u", "v", "w", "x", "y", "z">>
AsciiUpper == <<"A", "B", "C", "D", "E", "F", "G", "H", "I", "J", "K", "L", "M">>
              \o <<"N", "O", "P", "Q", "R", "S", "T", "U", "V", "W", "X", "Y", "Z">>

\* Two texts that differ in letter case only.
SameUpToCase(a, b) ==
    /\ Len(a) = Len(b)
    /\ \A i \in 1..Len(a) :
          \/ a[i] = b[i]
          \/ \E k \in 1..Len(AsciiLower) :
                {a[i], b[i]} = {AsciiLower[k], AsciiUpper[k]}

\* C32: for every variant s of ValidationStatus, RelayerStatus and
\* PeerStatus, parsing the text produced by Display yields s again, also
\* after changing letter case; distinct variants have distinct texts; and
\* parsing any other string yields an error rather than a variant.
C32_StatusTextRoundTrip ==
    \A c \in call :
        /\ \A s1, s2 \in Variants(c.enum) :
               s1 # s2 => to_string(c.enum, s1) # to_string(c.enum, s2)
        /\ \A r \in ret :
               /\ \A s \in Variants(c.enum) :
                      SameUpToCase(c.text, to_string(c.enum, s)) => r = Ok(s)
               /\ (\A s \in Variants(c.enum) :
                      ~SameUpToCase(c.text, to_string(c.enum, s))) => ~r.ok

\* A peer status text with an upper-case letter was parsed to its variant.
C32_Witness ==
    \E c \in call : \E r \in ret :
        /\ c.enum = "PeerStatus"
        /\ r.ok
        /\ c.text # to_string(c.enum, r.value)

(***************************************************************************)
(* The stored priority key of transfers with any u64 gas limit and price.  *)
(***************************************************************************)
PriorityTxs ==
    {Transaction_new([kind |-> "Transfer", from |-> 1, to |-> 2, amount |-> 1],
                     0, gas_limit, gas_price, 0) :
         gas_limit \in U64s \ {0}, gas_price \in U64s \ {0}}

\* admit(transaction)
Priority_Admit ==
    /\ Len(pending) < MaxPending
    /\ \E submitted \in PriorityTxs, position \in 1..(Len(pending) + 1),
          overflow_checks \in BOOLEAN :
           LET done == Adapter_add_pending_transaction(pending, submitted,
                                                       position, overflow_checks)
           IN /\ pending' = done.table
              /\ call' = Some([op |-> "admit", tx |-> submitted])
              /\ ret' = Some(done.result)
    /\ UNCHANGED <<now, vb, rb, max_retries, retry_answer, vworker, rworker,
                   tx, tx_call, block, taken, task, db>>

SpecPriority == InitMempool /\ [][Priority_Admit \/ Mempool_Remove]_vars

\* p > q for two numbers given by their coefficients.
Greater(p, q) ==
    \/ p.c2 > q.c2
    \/ p.c2 = q.c2 /\ p.c1 > q.c1
    \/ p.c2 = q.c2 /\ p.c1 = q.c1 /\ p.c0 > q.c0

\* C36: for any two admitted transactions, if gas_price * gas_limit of the
\* first is strictly greater than that of the second, the priority_score
\* persisted for the first is strictly greater than the one persisted for
\* the second.
C36_PriorityKeyKeepsFeeOrder ==
    \A i, j \in 1..Len(pending) :
        LET first == bincode_deserialize(pending[i].tx_data)
            second == bincode_deserialize(pending[j].tx_data)
        IN Greater(ProductOf(first.gas_price, first.gas_limit),
                   ProductOf(second.gas_price, second.gas_limit))
               => pending[i].priority_score > pending[j].priority_score

\* C37: a block that passes validate() contains no transaction twice: no two
\* positions of its transaction list hold transactions with the same
\* identity hash.
C37_ValidBlockHasNoDuplicate ==
    \A c \in call : \A r \in ret :
        ("block" \in DOMAIN c /\ r.ok) =>
            \A i, j \in 1..Len(c.block.transactions) :
                i # j => c.block.transactions[i].hash # c.block.transactions[j].hash

(***************************************************************************)
(* Block storage.  blocks is keyed by height (the column                   *)
(* GET_BLOCK_BY_HEIGHT selects on) and blocks_by_hash by hash; an INSERT   *)
(* on a stored key replaces the row.                                       *)
(***************************************************************************)
\* ScyllaAdapter::store_transaction with add_transaction_to_address: the
\* tables after the inserts.
Adapter_store_transaction(d, t, block_height, tx_index) ==
    [d EXCEPT
       !.transactions =
           (t.hash :> [block_height |-> as_i64(block_height), tx_index |-> tx_index,
                       tx_data |-> bincode_serialize(t)]) @@ @,
       !.transactions_by_address =
           @ \cup {[address |-> Transaction_sender(t), timestamp |-> t.timestamp,
                    tx_hash |-> t.hash, is_sender |-> TRUE]}
             \cup {[address |-> to, timestamp |-> t.timestamp,
                    tx_hash |-> t.hash, is_sender |-> FALSE] :
                       to \in Transaction_recipient(t)},
       !.transactions_by_block =
           (<<as_i64(block_height), tx_index>> :> t.hash) @@ @]

\* store_block that binds transaction_count where the height belongs.
Adapter_store_block_keyed_by_count(d, b, overflow_checks) ==
    [result |-> Ok("unit"),
     db |-> [d EXCEPT
               !.blocks = (b.transaction_count :>
                              [height |-> b.transaction_count, hash |-> b.hash,
                               block_data |-> bincode_serialize(b)]) @@ @,
               !.blocks_by_hash = (b.hash :> b.transaction_count) @@ @]]

\* ScyllaAdapter::store_block: [result, db]
Adapter_store_block(d, b, overflow_checks) ==
    LET total_value == Block_total_transaction_value(b, overflow_checks)
        total_fees == Block_total_fees(b, overflow_checks)
        height == as_i64(b.header.height)
        RECURSIVE store_from(_, _)
        store_from(tables, index) ==
            IF index > Len(b.transactions) THEN tables
            ELSE store_from(Adapter_store_transaction(tables, b.transactions[index],
                                                      b.header.height, index - 1),
                            index + 1)
    IN IF ~ total_value.ok THEN [result |-> total_value, db |-> d]
       ELSE IF ~ total_fees.ok THEN [result |-> total_fees, db |-> d]
       ELSE [result |-> Ok("unit"),
             db |-> store_from(
                      [d EXCEPT
                         !.blocks = (height :>
                                        [height |-> height, hash |-> b.hash,
                                         total_value |-> as_i64(total_value.value),
                                         total_fees |-> as_i64(total_fees.value),
                                         block_data |-> bincode_serialize(b)]) @@ @,
                         !.blocks_by_hash = (b.hash :> height) @@ @],
                      1)]

\* ScyllaAdapter::get_block_by_height
Adapter_get_block_by_height(d, height) ==
    IF as_i64(height) \in DOMAIN d.blocks
      THEN Ok(Some(bincode_deserialize(d.blocks[as_i64(height)].block_data)))
    ELSE Ok(None)

\* ScyllaAdapter::get_block_by_hash
Adapter_get_block_by_hash(d, hash) ==
    IF hash \in DOMAIN d.blocks_by_hash
      THEN Adapter_get_block_by_height(d, d.blocks_by_hash[hash])
    ELSE Ok(None)

\* Blocks handed to store_block: empty or with one transfer, at height 0 or
\* u64::MAX.
StoreBlocks ==
    {Block_new(h, ZeroHash, txs, 1, 0).value :
         h \in {0, U64Max}, txs \in {<<>>, <<MempoolTransfer(1, 0)>>}}

\* store_block, get_block_by_height and get_block_by_hash on one database.
Store_Call ==
    /\ \/ /\ Cardinality(DOMAIN db.blocks_by_hash) < MaxStored
          /\ \E b \in StoreBlocks, overflow_checks \in BOOLEAN :
                LET done == Adapter_store_block(db, b, overflow_checks)
                IN /\ db' = done.db
                   /\ call' = Some([op |-> "store_block", block |-> b])
                   /\ ret' = Some(done.result)
       \/ /\ \E height \in BlockHeights :
                /\ call' = Some([op |-> "get_block_by_height", height |-> height])
                /\ ret' = Some(Adapter_get_block_by_height(db, height))
          /\ db' = db
       \/ /\ \E b \in StoreBlocks :
                /\ call' = Some([op |-> "get_block_by_hash", hash |-> b.hash])
                /\ ret' = Some(Adapter_get_block_by_hash(db, b.hash))
          /\ db' = db
    /\ UNCHANGED <<now, vb, rb, max_retries, retry_answer, vworker, rworker,
                   tx, tx_call, block, pending, taken, task>>

SpecStore == InitMempool /\ [][Store_Call]_vars

\* C33: after store_block(b) succeeds and no other block is stored at that
\* height, get_block_by_height(b.header.height) returns a block equal to b;
\* get_block_by_height of a height never stored returns None.
C33_BlockRoundTrip ==
    /\ \A h \in BlockHeights : Adapter_get_block_by_height(db, h) = Ok(None)
    /\ [][\A c \in call' : \A r \in ret' :
            (c.op = "store_block" /\ r.ok) =>
                Adapter_get_block_by_height(db', c.block.header.height)
                    = Ok(Some(c.block))]_vars
    /\ [][\A h \in BlockHeights :
            (\A c \in call' : c.op = "store_block" => c.block.header.height # h)
                => Adapter_get_block_by_height(db', h)
                       = Adapter_get_block_by_height(db, h)]_vars
    /\ [](\A c \in call : \A r \in ret :
            c.op = "get_block_by_height" =>
                r = Adapter_get_block_by_height(db, c.height))

\* get_block_by_height returned the block with a transfer stored at height
\* u64::MAX, while another height holds a block too and a third is empty.
C33_Witness ==
    \E c \in call : \E r \in ret :
        /\ c.op = "get_block_by_height"
        /\ c.height = U64Max
        /\ \E b \in r.value : b.header.height = U64Max /\ b.transaction_count = 1
        /\ Cardinality(DOMAIN db.blocks) = 2
        /\ Cardinality(DOMAIN db.blocks_by_hash) = MaxStored

\* C38: after any sequence of successful store_block calls (including two
\* different blocks stored at the same height), get_block_by_hash(h)
\* returns either None or a block whose hash equals h.
C38_ByHashReturnsThatHash ==
    \A c \in call : \A r \in ret :
        (c.op = "get_block_by_hash" /\ r.ok) =>
            \A b \in r.value : b.hash = c.hash

====
